---------------------------- MODULE Spec2Model ----------------------------
(***************************************************************************)
(* A model of the TrackDraw Klatt formant synthesizers:                    *)
(*   synth/klatt.py      Klatt_Synth, interval-stepped, pull-based wiring  *)
(*   synth/klattnew.py   KlattSynth, whole-buffer, send/receive wiring     *)
(*   synth/klattinterface.py  parameter objects and klatt_make             *)
(*                                                                         *)
(* Samples are exact rationals <<n, d>> (d > 0, lowest terms), standing    *)
(* for the floats of the code; <<0,0>> is NaN and <<1,0>>, <<-1,0>> are    *)
(* +Inf and -Inf, as NumPy division produces them.  Frequencies are given  *)
(* in units that make the transcendental coefficient formulas rational:    *)
(* a centre frequency ff counts multiples of fs/12 (so cos(2*pi*ff*dt) is  *)
(* cos(ff*pi/6)) and a bandwidth bw counts multiples of fs*ln(2)/pi (so    *)
(* exp(-pi*bw*dt) is 2^(-bw)).  Gains in dB are multiples of 20, where     *)
(* sqrt(10)^(dB/10) is a power of ten.                                     *)
(***************************************************************************)
EXTENDS Integers, Sequences, FiniteSets, TLC

VARIABLES
    pc,         \* position of the driver of the specification under check
    bridge,     \* the arguments of the klatt_bridge call that built klatt, if any
    klatt,      \* the klatt.py Klatt_Synth object with its sections and components
    synth,      \* the klattnew.py KlattSynth object with its sections and components
    imp,        \* an impulse generator run on its own (klatt.py / klattnew.py)
    fn          \* inputs and results of a component run on its own

vars == <<pc, bridge, klatt, synth, imp, fn>>

-----------------------------------------------------------------------------
(* Exact arithmetic standing for the floats of the code *)

Abs(x) == IF x < 0 THEN -x ELSE x

Sgn(x) == IF x > 0 THEN 1 ELSE IF x < 0 THEN -1 ELSE 0

RECURSIVE Gcd(_, _)
Gcd(a, b) == IF b = 0 THEN a ELSE Gcd(b, a % b)

RECURSIVE Pow(_, _)
Pow(b, e) == IF e = 0 THEN 1 ELSE b * Pow(b, e - 1)

Q(n, d) ==
    IF d = 0 THEN <<Sgn(n), 0>>
    ELSE LET g == Gcd(Abs(n), Abs(d))
             s == Sgn(d)
         IN  <<(s * n) \div g, (s * d) \div g>>

QInt(i) == <<i, 1>>

QZero == <<0, 1>>

QOne == <<1, 1>>

QNaN == <<0, 0>>

IsFinite(x) == x[2] # 0

QNeg(x) == <<-x[1], x[2]>>

QAbs(x) == <<Abs(x[1]), x[2]>>

\* The sum of finite x and y over the least common denominator
FiniteSum(x, y, g) ==
    Q(x[1] * (y[2] \div g) + y[1] * (x[2] \div g), (x[2] \div g) * y[2])

QAdd(x, y) ==
    IF IsFinite(x) /\ IsFinite(y) THEN FiniteSum(x, y, Gcd(x[2], y[2]))
    ELSE IF x = QNaN \/ y = QNaN THEN QNaN
    ELSE IF ~IsFinite(x) /\ ~IsFinite(y) THEN (IF x = y THEN x ELSE QNaN)
    ELSE IF IsFinite(x) THEN y ELSE x

QSub(x, y) == QAdd(x, QNeg(y))

\* The product of finite x and y, common factors g of x[1], y[2] and h of y[1],
\* x[2] taken out first
FiniteProduct(x, y, g, h) ==
    <<(x[1] \div g) * (y[1] \div h), (x[2] \div h) * (y[2] \div g)>>

QMul(x, y) ==
    IF IsFinite(x) /\ IsFinite(y) /\ x[1] # 0 /\ y[1] # 0
    THEN FiniteProduct(x, y, Gcd(Abs(x[1]), y[2]), Gcd(Abs(y[1]), x[2]))
    ELSE Q(x[1] * y[1], x[2] * y[2])

\* IEEE division as NumPy performs it: x/0 is +-Inf, 0/0 is NaN
QDiv(x, y) == QMul(x, Q(y[2], y[1]))

\* x < y on finite values; every comparison with NaN is false
QLt(x, y) ==
    IF x = QNaN \/ y = QNaN THEN FALSE
    ELSE IF IsFinite(x) /\ IsFinite(y) THEN x[1] * y[2] < y[1] * x[2]
    ELSE IF IsFinite(x) THEN y[1] > 0
    ELSE IF IsFinite(y) THEN x[1] < 0
    ELSE x[1] < y[1]

\* Python's round() and numpy.round() of n/d (d # 0): half to even
RoundHalfEven(n, d) ==
    LET nn == n * Sgn(d)
        dd == Abs(d)
        q  == nn \div dd
        r  == nn - q * dd
    IN  IF 2 * r < dd THEN q
        ELSE IF 2 * r > dd THEN q + 1
        ELSE IF q % 2 = 0 THEN q ELSE q + 1

\* [0]*n, as a sequence in explicit form
Zeros(n) == SubSeq([i \in 1..n |-> QZero], 1, n)

\* The buffer holds a sample that is not zero
NotSilent(x) == \E n \in 1..Len(x) : x[n] # QZero

\* [x]*n of Python
ListOf(x, n) == [i \in 1..n |-> x]

Last(s) == s[Len(s)]

\* s[-2:] of Python
LastTwo(s) == IF Len(s) >= 2 THEN SubSeq(s, Len(s) - 1, Len(s)) ELSE s

RECURSIVE SumOver(_, _)
SumOver(f, S) ==
    IF S = {} THEN QZero
    ELSE LET x == CHOOSE y \in S : TRUE
         IN  QAdd(f[x], SumOver(f, S \ {x}))

-----------------------------------------------------------------------------
(* klatt.py: the signal processing of each component, on one interval *)

\* cos(2*pi*ff*dt) with ff in units of fs/12: cos(ff*pi/6), rational at these ff
CosTerm(ff) ==
    CASE ff = 0 -> QInt(1)
      [] ff = 2 -> Q(1, 2)
      [] ff = 3 -> QInt(0)
      [] ff = 4 -> Q(-1, 2)
      [] ff = 6 -> QInt(-1)

\* exp(-k*pi*bw*dt) with bw in units of |fs|*ln(2)/pi: 2^(-k*bw), inverted when
\* dt = 1/fs is negative
ExpTerm(k, bw, fs) ==
    IF fs > 0 THEN Q(1, Pow(2, k * bw)) ELSE Q(Pow(2, k * bw), 1)

\* Resonator.calc_coef before the anti branch: <<a, b, c>>
PoleCoef(ff, bw, fs) ==
    LET c == QNeg(ExpTerm(2, bw, fs))
        b == QMul(QInt(2), QMul(ExpTerm(1, bw, fs), CosTerm(ff)))
        a == QSub(QSub(QOne, b), c)
    IN  <<a, b, c>>

\* Resonator.calc_coef: the antiresonator inverts the coefficients
calc_coef(ff, bw, fs, anti) ==
    LET p == PoleCoef(ff, bw, fs)
    IN  IF anti
        THEN <<QDiv(QOne, p[1]), QNeg(QDiv(p[2], p[1])), QNeg(QDiv(p[3], p[1]))>>
        ELSE p

\* a*x + b*d1 + c*d2, one sample of either recursion
Tap(k, x, d1, d2) == QAdd(QAdd(QMul(k[1], x), QMul(k[2], d1)), QMul(k[3], d2))

\* The sample one back (back = 1) or two back of position n (from 1) in the
\* interval's vector v, taken from the delay before the interval's first sample
Back(v, delay, n, back) == IF n - back >= 1 THEN v[n - back] ELSE delay[n - back + 2]

\* The pole recursion of Resonator.resonate: output samples 1..n of the interval
PoleNext(x, k, delay, n, prev) ==
    Append(prev, Tap(k, x[n], Back(prev, delay, n, 1), Back(prev, delay, n, 2)))

RECURSIVE PoleOut(_, _, _, _)
PoleOut(x, k, delay, n) ==
    IF n = 0 THEN <<>>
    ELSE PoleNext(x, k, delay, n, PoleOut(x, k, delay, n - 1))

\* The antiresonator branch of Resonator.resonate: delayed input, no feedback
AntiOut(x, k, delay, n) ==
    [i \in 1..n |-> Tap(k, x[i], Back(x, delay, i, 1), Back(x, delay, i, 2))]

\* The two samples a pole resonator keeps for the next interval: output[-2:]
PoleDelay(input, output) == LastTwo(output)

\* The two samples an antiresonator keeps for the next interval: input[-2:]
AntiDelay(input, output) == LastTwo(input)

\* sqrt(10)**(dB/10), for dB a multiple of 20
Gain(dB) ==
    IF dB >= 0 THEN Q(Pow(10, dB \div 20), 1) ELSE Q(1, Pow(10, (-dB) \div 20))

\* amplify with dB taken as a power ratio: 10**(dB/10)
AmplifyOutPower(x, dB) == [i \in 1..Len(x) |-> QMul(x[i], Gain(2 * dB))]

\* Amplifier.amplify after pull()
AmplifyOut(x, dB) == [i \in 1..Len(x) |-> QMul(x[i], Gain(dB))]

\* First_Diff.differentiate after pull()
DiffOut(x, delay) ==
    [i \in 1..Len(x) |-> IF i = 1 THEN QSub(x[1], delay[1]) ELSE QSub(x[i], x[i - 1])]

\* The sample First_Diff keeps for the next interval: input[-1]
DiffDelay(input, output) == <<Last(input)>>

\* Lowpass.filt after pull()
RECURSIVE LowpassOut(_, _, _)
LowpassOut(x, delay, n) ==
    IF n = 0 THEN <<>>
    ELSE LET prev == LowpassOut(x, delay, n - 1)
         IN  Append(prev, QAdd(x[n], IF n = 1 THEN delay[1] ELSE prev[n - 1]))

\* The sample Lowpass keeps for the next interval: output[-1]
LowpassDelay(input, output) == <<Last(output)>>

\* glot_period = round(fs / f0), f0 # 0
GlotPeriod(fs, f0) == RoundHalfEven(fs, f0)

\* An impulse generator that also fires on the very first sample
ImpulseStepFromZero(glot_period, current_ind, prev, n) ==
    IF current_ind + (n - 1) = 0 \/ (current_ind + (n - 1)) - prev[2] >= glot_period
    THEN <<[prev[1] EXCEPT ![n] = QOne], current_ind + (n - 1)>>
    ELSE prev

\* One turn of the loop of Impulse.impulse_gen (klatt.py), at sample n (from 1) of
\* the interval that starts at absolute index current_ind; prev is
\* <<output, last_glot_pulse>>
ImpulseStep(glot_period, current_ind, prev, n) ==
    IF (current_ind + (n - 1)) - prev[2] >= glot_period
    THEN <<[prev[1] EXCEPT ![n] = QOne], current_ind + (n - 1)>>
    ELSE prev

\* The turns lo..hi of that loop in order, from the state prev (the first half
\* is evaluated, by the test on it, before the second half starts from it)
RECURSIVE ImpulseTurns(_, _, _, _, _)
ImpulseTurns(glot_period, current_ind, prev, lo, hi) ==
    IF lo > hi THEN prev
    ELSE IF lo = hi THEN ImpulseStep(glot_period, current_ind, prev, lo)
    ELSE LET half == ImpulseTurns(glot_period, current_ind, prev, lo, (lo + hi) \div 2)
         IN  IF half = half
             THEN ImpulseTurns(glot_period, current_ind, half, (lo + hi) \div 2 + 1, hi)
             ELSE half

\* Impulse.impulse_gen (klatt.py) on an interval of n samples:
\* <<output, last_glot_pulse>>
ImpulseLoop(glot_period, current_ind, last_glot_pulse, n) ==
    ImpulseTurns(glot_period, current_ind, <<Zeros(n), last_glot_pulse>>, 1, n)

\* max(self.input[:]) of the klatt.py Normalizer: the largest sample, sign kept
RECURSIVE MaxOf(_, _)
MaxOf(x, n) ==
    IF n = 1 THEN x[1]
    ELSE LET m == MaxOf(x, n - 1) IN IF QLt(m, x[n]) THEN x[n] ELSE m

\* np.max(np.abs(self.input[:])) of the klattnew.py Normalizer; NaN propagates
RECURSIVE MaxAbsOf(_, _)
MaxAbsOf(x, n) ==
    IF n = 1 THEN QAbs(x[1])
    ELSE LET m == MaxAbsOf(x, n - 1)
         IN  IF m = QNaN \/ x[n] = QNaN THEN QNaN
             ELSE IF QLt(m, QAbs(x[n])) THEN QAbs(x[n]) ELSE m

-----------------------------------------------------------------------------
(* klatt.py: the Klatt_Synth object, its wiring and its components *)

FormantNames ==
    <<"cascade.formants[0]", "cascade.formants[1]", "cascade.formants[2]",
      "cascade.formants[3]", "cascade.formants[4]", "cascade.formants[5]">>

\* Klatt_Cascade.__init__ always builds formants[0], then one per further formant
NumFormantComps(n_form) == IF n_form < 1 THEN 1 ELSE n_form

Sections == {"voice", "noise", "cascade", "parallel", "radiation"}

VoiceComps ==
    {"voice.impulse", "voice.rgp", "voice.rgz", "voice.rgs", "voice.av",
     "voice.avs", "voice.mixer"}

NoiseComps == {"noise.noise", "noise.lp", "noise.ah"}

CascadeComps(n_form) ==
    {"cascade.mixer", "cascade.rnp", "cascade.rnz"}
        \cup {FormantNames[i] : i \in 1..NumFormantComps(n_form)}

ParallelComps ==
    {"parallel.a1", "parallel.r1", "parallel.first_diff", "parallel.mixer",
     "parallel.an", "parallel.rnp", "parallel.a2", "parallel.r2", "parallel.a3",
     "parallel.r3", "parallel.a4", "parallel.r4", "parallel.a5", "parallel.r5",
     "parallel.a6", "parallel.r6", "parallel.output_mixer"}

RadiationComps == {"radiation.mixer", "radiation.radiation_characteristic"}

OutputComps == {"output_module.output"}

Components(n_form) ==
    VoiceComps \cup NoiseComps \cup CascadeComps(n_form) \cup ParallelComps
        \cup RadiationComps \cup OutputComps

\* Resonator(..., anti=True)
AntiResonators == {"voice.rgz", "cascade.rnz"}

\* The components that keep a delay, with its length
DelayLen(c) ==
    IF c \in {"parallel.first_diff", "radiation.radiation_characteristic", "noise.lp"}
    THEN 1
    ELSE IF c \in {"voice.rgp", "voice.rgz", "voice.rgs", "cascade.rnp", "cascade.rnz",
                   "parallel.r1", "parallel.rnp", "parallel.r2", "parallel.r3",
                   "parallel.r4", "parallel.r5", "parallel.r6"}
              \/ \E i \in 1..Len(FormantNames) : c = FormantNames[i]
    THEN 2
    ELSE 0

\* The input_connect lists the constructors pass
InputConnect(c) ==
    CASE c = "voice.impulse" -> <<>>
      [] c = "voice.rgp" -> <<"voice.impulse">>
      [] c = "voice.rgz" -> <<"voice.rgp">>
      [] c = "voice.rgs" -> <<"voice.rgp">>
      [] c = "voice.av" -> <<"voice.rgz">>
      [] c = "voice.avs" -> <<"voice.rgs">>
      [] c = "voice.mixer" -> <<"voice.av", "voice.avs">>
      [] c = "noise.noise" -> <<>>
      [] c = "noise.lp" -> <<"noise.noise">>
      [] c = "noise.ah" -> <<"noise.lp">>
      [] c = "cascade.mixer" -> <<"voice", "noise">>
      [] c = "cascade.rnp" -> <<"cascade.mixer">>
      [] c = "cascade.rnz" -> <<"cascade.rnp">>
      [] c = "cascade.formants[0]" -> <<"cascade.rnz">>
      [] c = "cascade.formants[1]" -> <<"cascade.formants[0]">>
      [] c = "cascade.formants[2]" -> <<"cascade.formants[1]">>
      [] c = "cascade.formants[3]" -> <<"cascade.formants[2]">>
      [] c = "cascade.formants[4]" -> <<"cascade.formants[3]">>
      [] c = "cascade.formants[5]" -> <<"cascade.formants[4]">>
      [] c = "parallel.a1" -> <<"voice">>
      [] c = "parallel.r1" -> <<"parallel.a1">>
      [] c = "parallel.first_diff" -> <<"voice">>
      [] c = "parallel.mixer" -> <<"parallel.first_diff", "noise">>
      [] c = "parallel.an" -> <<"parallel.mixer">>
      [] c = "parallel.rnp" -> <<"parallel.an">>
      [] c = "parallel.a2" -> <<"parallel.mixer">>
      [] c = "parallel.r2" -> <<"parallel.a2">>
      [] c = "parallel.a3" -> <<"parallel.mixer">>
      [] c = "parallel.r3" -> <<"parallel.a3">>
      [] c = "parallel.a4" -> <<"parallel.mixer">>
      [] c = "parallel.r4" -> <<"parallel.a4">>
      [] c = "parallel.a5" -> <<"noise">>
      [] c = "parallel.r5" -> <<"parallel.a5">>
      [] c = "parallel.a6" -> <<"noise">>
      [] c = "parallel.r6" -> <<"parallel.a6">>
      [] c = "parallel.output_mixer" ->
            <<"parallel.r1", "parallel.rnp", "parallel.r2", "parallel.r3",
              "parallel.r4", "parallel.r5", "parallel.r6">>
      [] c = "radiation.mixer" -> <<"cascade", "parallel">>
      [] c = "radiation.radiation_characteristic" -> <<"radiation.mixer">>
      [] c = "output_module.output" -> <<"radiation">>

\* Klatt_Synth.__init__ once dt = 1/fs has been computed: the parameters, the
\* trackers, the output vector, and every section and component with zeroed buffers
Klatt_Synth_new(a) ==
    LET comps == Components(a.n_form)
    IN  [f0 |-> a.f0, ff |-> a.ff, bw |-> a.bw,
         av |-> ListOf(a.av, a.n_inv), ah |-> ListOf(a.ah, a.n_inv),
         avs |-> ListOf(a.avs, a.n_inv),
         fgp |-> ListOf(a.fgp, a.n_inv), bgp |-> ListOf(a.bgp, a.n_inv),
         fgz |-> ListOf(a.fgz, a.n_inv), bgz |-> ListOf(a.bgz, a.n_inv),
         bgs |-> ListOf(a.bgs, a.n_inv),
         fnp |-> ListOf(a.fnp, a.n_inv), fnz |-> ListOf(a.fnz, a.n_inv),
         bnp |-> ListOf(a.bnp, a.n_inv), bnz |-> ListOf(a.bnz, a.n_inv),
         sw |-> ListOf(a.sw, a.n_inv),
         a1 |-> ListOf(a.a1, a.n_inv), a2 |-> ListOf(a.a2, a.n_inv),
         a3 |-> ListOf(a.a3, a.n_inv), a4 |-> ListOf(a.a4, a.n_inv),
         a5 |-> ListOf(a.a5, a.n_inv), an |-> ListOf(a.an, a.n_inv),
         inv_samp |-> a.inv_samp, n_inv |-> a.n_inv, n_form |-> a.n_form,
         fs |-> a.fs,
         last_glot_pulse |-> 0,
         current_inv |-> 0, next_inv |-> 1,
         current_ind |-> 0, next_ind |-> a.inv_samp,
         output |-> Zeros(a.n_inv * a.inv_samp),
         inp |-> [c \in comps |-> Zeros(a.inv_samp)],
         out |-> [c \in comps \cup Sections |-> Zeros(a.inv_samp)],
         delay |-> [c \in comps |-> Zeros(DelayLen(c))],
         input_connect |-> [c \in comps |-> InputConnect(c)],
         err |-> "none",
         noise_used |-> FALSE,
         i |-> 0,
         ran |-> <<>>]

Ok(S) == S.err = "none"

Raise(S, e) == [S EXCEPT !.err = e]

\* Klatt_Component.pull
pull(S, c) ==
    [S EXCEPT !.inp[c] = S.out[S.input_connect[c][1]],
              !.out[c] = Zeros(S.inv_samp)]

\* self.master.X[self.master.current_inv] for a parameter list X
Cur(S, X) == X[S.current_inv + 1]

\* The end of Resonator.resonate: the interval's output and the delay kept;
\* output[1] and input[1] do not exist in an interval of one sample
ResonateStore(P, c, y) ==
    IF P.inv_samp < 2
    THEN Raise([P EXCEPT !.out[c] = y], "IndexError")
    ELSE [P EXCEPT !.out[c] = y,
                   !.delay[c] = IF c \in AntiResonators THEN AntiDelay(P.inp[c], y)
                                                        ELSE PoleDelay(P.inp[c], y)]

ResonateWith(P, c, k) ==
    ResonateStore(P, c, IF c \in AntiResonators
                        THEN AntiOut(P.inp[c], k, P.delay[c], P.inv_samp)
                        ELSE PoleOut(P.inp[c], k, P.delay[c], P.inv_samp))

\* Resonator.resonate; 1/a raises when the antiresonator's a is 0
resonate(S, c, ff, bw) ==
    IF ~Ok(S) THEN S
    ELSE IF c \in AntiResonators /\ PoleCoef(ff, bw, S.fs)[1] = QZero
    THEN Raise(pull(S, c), "ZeroDivisionError")
    ELSE ResonateWith(pull(S, c), c, calc_coef(ff, bw, S.fs, c \in AntiResonators))

\* Impulse.impulse_gen
impulse_gen(S) ==
    IF ~Ok(S) THEN S
    ELSE LET Z == [S EXCEPT !.out["voice.impulse"] = Zeros(S.inv_samp)]
             f == Cur(S, S.f0)
         IN  IF f = 0 THEN Raise(Z, "ZeroDivisionError")
             ELSE LET r == ImpulseLoop(GlotPeriod(S.fs, f), S.current_ind,
                                       S.last_glot_pulse, S.inv_samp)
                  IN  [Z EXCEPT !.out["voice.impulse"] = r[1],
                                !.last_glot_pulse = r[2]]

\* Noise.noise_gen, the interval's Gaussian draw being chunk
noise_gen(S, chunk) ==
    IF ~Ok(S) THEN S
    ELSE [S EXCEPT !.out["noise.noise"] = chunk,
                   !.noise_used = @ \/ chunk # Zeros(S.inv_samp)]

\* Amplifier.amplify
amplify(S, c, dB) ==
    IF ~Ok(S) THEN S
    ELSE LET P == pull(S, c)
         IN  [P EXCEPT !.out[c] = AmplifyOut(P.inp[c], dB)]

\* [sum(x) for x in zip(*self.inputs)]
RECURSIVE MixSum(_, _, _, _)
MixSum(S, srcs, i, k) ==
    IF k = 0 THEN QZero
    ELSE QAdd(MixSum(S, srcs, i, k - 1), S.out[srcs[k]][i])

\* Mixer.mix
mix(S, c) ==
    IF ~Ok(S) THEN S
    ELSE LET srcs == S.input_connect[c]
         IN  [S EXCEPT !.out[c] = [i \in 1..S.inv_samp |-> MixSum(S, srcs, i, Len(srcs))]]

\* First_Diff.differentiate
differentiate(S, c) ==
    IF ~Ok(S) THEN S
    ELSE LET P == pull(S, c)
             y == DiffOut(P.inp[c], S.delay[c])
         IN  [P EXCEPT !.out[c] = y, !.delay[c] = DiffDelay(P.inp[c], y)]

\* Lowpass.filt
filt(S, c) ==
    IF ~Ok(S) THEN S
    ELSE LET P == pull(S, c)
             y == LowpassOut(P.inp[c], S.delay[c], S.inv_samp)
         IN  [P EXCEPT !.out[c] = y, !.delay[c] = LowpassDelay(P.inp[c], y)]

\* v[lo:hi] = x of Python, on a list v
SliceAssign(v, lo, hi, x) ==
    LET l == IF lo > Len(v) THEN Len(v) ELSE lo
        h == IF hi > Len(v) THEN Len(v) ELSE IF hi < l THEN l ELSE hi
    IN  SubSeq(v, 1, l) \o x \o SubSeq(v, h + 1, Len(v))

\* Output.run
Output_run(S) ==
    IF ~Ok(S) THEN S
    ELSE LET P == pull(S, "output_module.output")
         IN  [P EXCEPT !.output = SliceAssign(S.output, S.current_ind, S.next_ind,
                                              P.inp["output_module.output"])]

\* self.output[:] = <component>.output[:] at the end of a section's run
SectionOut(S, sec, c) ==
    IF ~Ok(S) THEN S ELSE [S EXCEPT !.out[sec] = S.out[c], !.ran = Append(@, sec)]

\* Klatt_Noise.__init__: self.offset
NoiseOffset == 100

\* A parameter of the current interval: <<"fgp">> is master.fgp[current_inv],
\* <<"ff", k>> is master.ff[k][current_inv]
Missing(S, ref) == Len(ref) = 2 /\ ref[2] + 1 > Len(S[ref[1]])

Param(S, ref) ==
    IF Len(ref) = 2 THEN Cur(S, S[ref[1]][ref[2] + 1]) ELSE Cur(S, S[ref[1]])

\* One statement of a section's run(): a component's method called with the
\* current interval's parameters; reading a formant the lists do not hold
\* raises IndexError
Call(S, op) ==
    CASE op[1] = "impulse_gen" -> impulse_gen(S)
      [] op[1] = "noise_gen"   -> noise_gen(S, op[2])
      [] op[1] = "resonate"    ->
            IF Ok(S) /\ (Missing(S, op[3]) \/ Missing(S, op[4]))
            THEN Raise(S, "IndexError")
            ELSE resonate(S, op[2], Param(S, op[3]), Param(S, op[4]))
      [] op[1] = "amplify"     -> amplify(S, op[2], Param(S, op[3]) - op[4])
      [] op[1] = "mix"         -> mix(S, op[2])
      [] op[1] = "differentiate" -> differentiate(S, op[2])
      [] op[1] = "filt"        -> filt(S, op[2])
      [] op[1] = "output"      -> SectionOut(S, op[2], op[3])

\* The statements ops[1..n] in order
RECURSIVE Run(_, _, _)
Run(S, ops, n) == IF n = 0 THEN S ELSE Call(Run(S, ops, n - 1), ops[n])

\* Klatt_Voice.run
Klatt_Voice_run(S) ==
    LET ops == << <<"impulse_gen">>,
                  <<"resonate", "voice.rgp", <<"fgp">>, <<"bgp">> >>,
                  <<"resonate", "voice.rgz", <<"fgz">>, <<"bgz">> >>,
                  <<"amplify", "voice.av", <<"av">>, 0>>,
                  <<"resonate", "voice.rgs", <<"fgp">>, <<"bgs">> >>,
                  <<"amplify", "voice.avs", <<"avs">>, 0>>,
                  <<"mix", "voice.mixer">>,
                  <<"output", "voice", "voice.mixer">> >>
    IN  Run(S, ops, Len(ops))

\* Klatt_Noise.run
Klatt_Noise_run(S, chunk) ==
    LET ops == << <<"noise_gen", chunk>>,
                  <<"filt", "noise.lp">>,
                  <<"amplify", "noise.ah", <<"ah">>, NoiseOffset>>,
                  <<"output", "noise", "noise.ah">> >>
    IN  Run(S, ops, Len(ops))

\* Klatt_Cascade.run with the section's output copied from formants[0]
Klatt_Cascade_run_first(S) ==
    LET ops == << <<"mix", "cascade.mixer">>,
                  <<"resonate", "cascade.rnp", <<"fnp">>, <<"bnp">> >>,
                  <<"resonate", "cascade.rnz", <<"fnz">>, <<"bnz">> >> >>
               \o [form \in 1..S.n_form |->
                      <<"resonate", FormantNames[form], <<"ff", form - 1>>, <<"bw", form - 1>> >>]
               \o << <<"output", "cascade", FormantNames[1]>> >>
    IN  Run(S, ops, Len(ops))

\* Klatt_Cascade.run
Klatt_Cascade_run(S) ==
    LET ops == << <<"mix", "cascade.mixer">>,
                  <<"resonate", "cascade.rnp", <<"fnp">>, <<"bnp">> >>,
                  <<"resonate", "cascade.rnz", <<"fnz">>, <<"bnz">> >> >>
               \o [form \in 1..S.n_form |->
                      <<"resonate", FormantNames[form], <<"ff", form - 1>>, <<"bw", form - 1>> >>]
               \o << <<"output", "cascade", FormantNames[NumFormantComps(S.n_form)]>> >>
    IN  Run(S, ops, Len(ops))

\* Klatt_Parallel.run
Klatt_Parallel_run(S) ==
    LET ops == << <<"amplify", "parallel.a1", <<"a1">>, 0>>,
                  <<"resonate", "parallel.r1", <<"ff", 0>>, <<"bw", 0>> >>,
                  <<"differentiate", "parallel.first_diff">>,
                  <<"mix", "parallel.mixer">>,
                  <<"amplify", "parallel.an", <<"an">>, 0>>,
                  <<"resonate", "parallel.rnp", <<"fnp">>, <<"bnp">> >>,
                  <<"amplify", "parallel.a2", <<"a2">>, 0>>,
                  <<"resonate", "parallel.r2", <<"ff", 1>>, <<"bw", 1>> >>,
                  <<"amplify", "parallel.a3", <<"a3">>, 0>>,
                  <<"resonate", "parallel.r3", <<"ff", 2>>, <<"bw", 2>> >>,
                  <<"amplify", "parallel.a4", <<"a4">>, 0>>,
                  <<"resonate", "parallel.r4", <<"ff", 3>>, <<"bw", 3>> >>,
                  <<"amplify", "parallel.a5", <<"a5">>, 0>>,
                  <<"resonate", "parallel.r5", <<"ff", 4>>, <<"bw", 4>> >>,
                  <<"mix", "parallel.output_mixer">>,
                  <<"output", "parallel", "parallel.output_mixer">> >>
    IN  Run(S, ops, Len(ops))

\* Klatt_Radiation.run
Klatt_Radiation_run(S) ==
    LET ops == << <<"mix", "radiation.mixer">>,
                  <<"differentiate", "radiation.radiation_characteristic">>,
                  <<"output", "radiation", "radiation.radiation_characteristic">> >>
    IN  Run(S, ops, Len(ops))

\* Klatt_Output.run
Klatt_Output_run(S) ==
    LET s1 == Output_run(S)
    IN  IF Ok(s1) THEN [s1 EXCEPT !.ran = Append(@, "output")] ELSE s1

\* Klatt_Synth.update_inv
update_inv(S) ==
    [S EXCEPT !.current_inv = S.current_inv + 1,
              !.next_inv = S.next_inv + 1,
              !.current_ind = (S.current_inv + 1) * S.inv_samp,
              !.next_ind = (S.next_inv + 1) * S.inv_samp,
              !.ran = <<>>]

\* Klatt_Synth.reset
reset(S) ==
    [S EXCEPT !.current_inv = 0,
              !.next_inv = 1,
              !.current_ind = 0,
              !.next_ind = S.inv_samp]

-----------------------------------------------------------------------------
(* klatt.py: Klatt_Synth(...) followed by synth(), one step per section run *)

MaxInv == 2

MaxInvSamp == 3

\* Frequencies and bandwidths of the formants, in the units of CosTerm and ExpTerm
FormantFF == <<3, 4, 2, 3, 4, 2>>

FormantBW == <<0, 1, 0, 1, 0, 0>>

\* The f0 lists tried: constant ones, and one that falls after the first interval
F0Contours(n_inv, values) ==
    {ListOf(v, n_inv) : v \in values}
        \cup {[i \in 1..n_inv |-> IF i = 1 THEN 2 ELSE 1]}

\* The arguments of Klatt_Synth(...), the keyword ones at values of the caller
Args(f0, fs, n_inv, n_form, inv_samp, sw) ==
    [f0 |-> f0,
     ff |-> [k \in 1..n_form |-> ListOf(FormantFF[k], n_inv)],
     bw |-> [k \in 1..n_form |-> ListOf(FormantBW[k], n_inv)],
     fs |-> fs, n_inv |-> n_inv, n_form |-> n_form, inv_samp |-> inv_samp,
     av |-> 0, ah |-> 100, avs |-> 0,
     fgp |-> 3, bgp |-> 0, fgz |-> 2, bgz |-> 0, bgs |-> 1,
     fnp |-> 4, fnz |-> 3, bnp |-> 0, bnz |-> 0,
     sw |-> sw, a1 |-> 0, a2 |-> 0, a3 |-> 0, a4 |-> 0, a5 |-> 0, an |-> 0]

\* Well-formed arguments
ValidArgs ==
    UNION {{Args(f0, 4, n_inv, n_form, inv_samp, sw) :
                f0 \in F0Contours(n_inv, {1, 2}), n_form \in {1, 2, 5},
                inv_samp \in 1..MaxInvSamp, sw \in {0, 1}} :
           n_inv \in 1..MaxInv}

\* Arguments with a degenerate setting: fs or an f0 value not positive, no
\* formant, or a switch value that is neither 0 nor 1
DegenerateArgs ==
    {Args(ListOf(2, MaxInv), fs, MaxInv, n_form, 2, 0) :
        fs \in {0, -4}, n_form \in {1, 5}}
    \cup {Args(f0, 4, MaxInv, n_form, 2, sw) :
            f0 \in {ListOf(0, MaxInv), ListOf(-2, MaxInv),
                    [i \in 1..MaxInv |-> IF i = 1 THEN 2 ELSE -2],
                    [i \in 1..MaxInv |-> IF i = 1 THEN 2 ELSE 0]},
            n_form \in {1, 5}, sw \in {0, 1}}
    \cup {Args(ListOf(2, MaxInv), 4, MaxInv, 0, 2, sw) : sw \in {0, 1}}
    \cup {Args(ListOf(2, MaxInv), 4, MaxInv, 5, 2, 2)}

\* The Gaussian draws of one interval: silence, or a unit sample first
NoiseChunks(n) == {Zeros(n), [i \in 1..n |-> IF i = 1 THEN QOne ELSE QZero]}

Idle == [state |-> "unused"]

\* klatt_bridge.interpolate: a scalar becomes [x]*n_inv (the TypeError branch);
\* a track is resampled linearly at n_inv points from its first to its last
\* (the tracks tried make the division exact)
interpolate(input_vector, n_inv) ==
    IF "scalar" \in DOMAIN input_vector
    THEN ListOf(input_vector.scalar, n_inv)
    ELSE LET v == input_vector.points
         IN  [j \in 1..n_inv |->
                IF n_inv = 1 \/ ((j - 1) * (Len(v) - 1)) % (n_inv - 1) = 0
                THEN v[IF n_inv = 1 THEN 1
                       ELSE ((j - 1) * (Len(v) - 1)) \div (n_inv - 1) + 1]
                ELSE v[((j - 1) * (Len(v) - 1)) \div (n_inv - 1) + 1]
                     + ((v[((j - 1) * (Len(v) - 1)) \div (n_inv - 1) + 2]
                            - v[((j - 1) * (Len(v) - 1)) \div (n_inv - 1) + 1])
                        * (((j - 1) * (Len(v) - 1)) % (n_inv - 1)))
                       \div (n_inv - 1)]

\* ff[:, i]: column i of a two-dimensional array, as a track
Column(m, i) == [points |-> [r \in 1..Len(m) |-> m[r][i]]]

\* n_inv = round(dur*fs/inv_samp), dur being the rational <<num, den>>
BridgeIntervals(fs, dur, inv_samp) ==
    RoundHalfEven(dur[1] * fs, dur[2] * inv_samp)

\* The arguments klatt_bridge passes to Klatt_Synth(...); the parameters it does
\* not pass take the defaults of the signature, here the nearest values the
\* units of CosTerm and ExpTerm express
BridgeArgs(b) ==
    LET n_inv == BridgeIntervals(b.fs, b.dur, b.inv_samp)
        n_form == Len(b.ff[1])
    IN  [f0 |-> interpolate(b.f0, n_inv),
         ff |-> [i \in 1..n_form |-> interpolate(Column(b.ff, i), n_inv)],
         bw |-> [i \in 1..n_form |-> interpolate(Column(b.bw, i), n_inv)],
         fs |-> b.fs, n_inv |-> n_inv, n_form |-> n_form, inv_samp |-> b.inv_samp,
         av |-> b.av, avs |-> b.avs, ah |-> 0,
         fgp |-> 0, bgp |-> 1, fgz |-> 2, bgz |-> 1, bgs |-> 1,
         fnp |-> 0, fnz |-> 0, bnp |-> 1, bnz |-> 1,
         sw |-> 0, a1 |-> 0, a2 |-> 0, a3 |-> 0, a4 |-> 0, a5 |-> 0, an |-> 0]

\* The klatt_bridge calls tried: durations of a half, one and one and a half
\* seconds at 4 Hz, f0 a scalar or a flat track, flat formant tracks
BridgeCalls ==
    {[f0 |-> f0,
      ff |-> <<SubSeq(FormantFF, 1, n_form), SubSeq(FormantFF, 1, n_form)>>,
      bw |-> <<SubSeq(FormantBW, 1, n_form), SubSeq(FormantBW, 1, n_form)>>,
      av |-> 0, avs |-> 0, fs |-> 4, dur |-> dur, inv_samp |-> inv_samp] :
        f0 \in {[scalar |-> 2], [points |-> <<1, 1>>]},
        n_form \in {1, 5},
        dur \in {<<1, 2>>, <<1, 1>>, <<3, 2>>},
        inv_samp \in 1..MaxInvSamp}

\* Either Klatt_Synth(...) is about to be called directly, or klatt_bridge(...)
\* has just been entered
Init ==
    /\ \/ /\ pc = "new"
          /\ bridge = Idle
          /\ klatt \in {[args |-> a, err |-> "none"] : a \in ValidArgs \cup DegenerateArgs}
       \/ /\ pc = "bridge"
          /\ bridge \in BridgeCalls
          /\ klatt = Idle
    /\ synth = Idle
    /\ imp = Idle
    /\ fn = Idle

\* klatt_bridge up to the call of Klatt_Synth(...)
klatt_bridge ==
    /\ pc = "bridge"
    /\ klatt' = [args |-> BridgeArgs(bridge), err |-> "none"]
    /\ pc' = "new"
    /\ UNCHANGED <<bridge, synth, imp, fn>>

\* Where a finished step hands over: on to nxt, or out with the exception
After(S, nxt) == IF Ok(S) THEN nxt ELSE "error"

\* Klatt_Synth.__init__: dt = 1/fs raises when fs is 0
Klatt_Synth_init ==
    /\ pc = "new"
    /\ IF klatt.args.fs = 0
       THEN /\ klatt' = [klatt EXCEPT !.err = "ZeroDivisionError"]
            /\ pc' = "error"
       ELSE /\ klatt' = Klatt_Synth_new(klatt.args)
            /\ pc' = IF klatt.args.n_inv > 0 THEN "voice" ELSE "reset"
    /\ UNCHANGED <<bridge, synth, imp, fn>>

SynthVoice ==
    /\ pc = "voice"
    /\ klatt' = Klatt_Voice_run(klatt)
    /\ pc' = After(klatt', "noise")
    /\ UNCHANGED <<bridge, synth, imp, fn>>

SynthNoise ==
    /\ pc = "noise"
    /\ \E chunk \in NoiseChunks(klatt.inv_samp) :
           klatt' = Klatt_Noise_run(klatt, chunk)
    /\ pc' = After(klatt', "tract")
    /\ UNCHANGED <<bridge, synth, imp, fn>>

\* The cascade branch run whatever sw says
SynthCascadeAlways ==
    /\ pc = "tract"
    /\ klatt' = Klatt_Cascade_run(klatt)
    /\ pc' = After(klatt', "radiation")
    /\ UNCHANGED <<bridge, synth, imp, fn>>

SynthCascade ==
    /\ pc = "tract"
    /\ Cur(klatt, klatt.sw) = 0
    /\ klatt' = Klatt_Cascade_run(klatt)
    /\ pc' = After(klatt', "radiation")
    /\ UNCHANGED <<bridge, synth, imp, fn>>

\* The parallel branch run whatever sw says
SynthParallelAlways ==
    /\ pc = "tract"
    /\ klatt' = Klatt_Parallel_run(klatt)
    /\ pc' = After(klatt', "radiation")
    /\ UNCHANGED <<bridge, synth, imp, fn>>

SynthParallel ==
    /\ pc = "tract"
    /\ Cur(klatt, klatt.sw) = 1
    /\ klatt' = Klatt_Parallel_run(klatt)
    /\ pc' = After(klatt', "radiation")
    /\ UNCHANGED <<bridge, synth, imp, fn>>

\* neither branch of the if/elif on sw
SynthNoTract ==
    /\ pc = "tract"
    /\ Cur(klatt, klatt.sw) \notin {0, 1}
    /\ pc' = "radiation"
    /\ UNCHANGED <<bridge, klatt, synth, imp, fn>>

SynthRadiation ==
    /\ pc = "radiation"
    /\ klatt' = Klatt_Radiation_run(klatt)
    /\ pc' = After(klatt', "output")
    /\ UNCHANGED <<bridge, synth, imp, fn>>

SynthOutput ==
    /\ pc = "output"
    /\ klatt' = Klatt_Output_run(klatt)
    /\ pc' = After(klatt', "update")
    /\ UNCHANGED <<bridge, synth, imp, fn>>

\* self.update_inv() and the next turn of for i in range(self.n_inv)
SynthUpdateInv ==
    /\ pc = "update"
    /\ klatt' = [update_inv(klatt) EXCEPT !.i = klatt.i + 1]
    /\ pc' = IF klatt.i + 1 < klatt.n_inv THEN "voice" ELSE "reset"
    /\ UNCHANGED <<bridge, synth, imp, fn>>

SynthReset ==
    /\ pc = "reset"
    /\ klatt' = reset(klatt)
    /\ pc' = "done"
    /\ UNCHANGED <<bridge, synth, imp, fn>>

Next ==
    \/ klatt_bridge
    \/ Klatt_Synth_init
    \/ SynthVoice
    \/ SynthNoise
    \/ SynthCascade
    \/ SynthParallel
    \/ SynthNoTract
    \/ SynthRadiation
    \/ SynthOutput
    \/ SynthUpdateInv
    \/ SynthReset

Spec == Init /\ [][Next]_vars

-----------------------------------------------------------------------------
(* klatt.py: chunked against whole-buffer synthesis *)

\* The Klatt_Synth object has been constructed
Built == "inv_samp" \in DOMAIN klatt

\* The names of the scalar parameter lists of Klatt_Synth
ParamNames ==
    {"f0", "av", "ah", "avs", "fgp", "bgp", "fgz", "bgz", "bgs", "fnp", "fnz",
     "bnp", "bnz", "sw", "a1", "a2", "a3", "a4", "a5", "an"}

\* Every parameter list holds one value over the whole run
ConstantParams(S) ==
    /\ \A p \in ParamNames : \A i \in 1..S.n_inv : S[p][i] = S[p][1]
    /\ \A k \in 1..Len(S.ff) : \A i \in 1..S.n_inv : S.ff[k][i] = S.ff[k][1]
    /\ \A k \in 1..Len(S.bw) : \A i \in 1..S.n_inv : S.bw[k][i] = S.bw[k][1]

\* Settings in the documented ranges
Regular(S) ==
    /\ S.fs > 0 /\ S.n_form >= 1
    /\ \A i \in 1..S.n_inv : S.f0[i] > 0 /\ S.sw[i] \in {0, 1}

\* The arguments that ask for the same samples as S in one interval
OneChunkArgs(S) ==
    [f0 |-> <<S.f0[1]>>,
     ff |-> [k \in 1..Len(S.ff) |-> <<S.ff[k][1]>>],
     bw |-> [k \in 1..Len(S.bw) |-> <<S.bw[k][1]>>],
     fs |-> S.fs, n_inv |-> 1, n_form |-> S.n_form,
     inv_samp |-> S.n_inv * S.inv_samp,
     av |-> S.av[1], ah |-> S.ah[1], avs |-> S.avs[1],
     fgp |-> S.fgp[1], bgp |-> S.bgp[1], fgz |-> S.fgz[1], bgz |-> S.bgz[1],
     bgs |-> S.bgs[1], fnp |-> S.fnp[1], fnz |-> S.fnz[1], bnp |-> S.bnp[1],
     bnz |-> S.bnz[1], sw |-> S.sw[1], a1 |-> S.a1[1], a2 |-> S.a2[1],
     a3 |-> S.a3[1], a4 |-> S.a4[1], a5 |-> S.a5[1], an |-> S.an[1]]

\* The body of the loop of Klatt_Synth.synth for one interval, up to update_inv
synth_interval(S, chunk) ==
    LET n == Klatt_Noise_run(Klatt_Voice_run(S), chunk)
        t == IF ~Ok(n) THEN n
             ELSE IF Cur(n, n.sw) = 0 THEN Klatt_Cascade_run(n)
             ELSE IF Cur(n, n.sw) = 1 THEN Klatt_Parallel_run(n)
             ELSE n
    IN  Klatt_Output_run(Klatt_Radiation_run(t))

\* What a caller of synth() gets: the output vector, or the exception
Outcome(S) == IF Ok(S) THEN <<"output", S.output>> ELSE <<"raise", S.err>>

\* The outcome of synthesizing the samples of S in one single interval, silent noise
WholeOutcome(S) ==
    Outcome(synth_interval(Klatt_Synth_new(OneChunkArgs(S)),
                           Zeros(S.n_inv * S.inv_samp)))

\* The run has ended, with constant regular parameters and no noise drawn
EndedQuiet ==
    /\ pc \in {"done", "error"}
    /\ Built
    /\ ConstantParams(klatt)
    /\ Regular(klatt)
    /\ ~klatt.noise_used

\* C1: with constant parameters and the noise excluded, synthesizing in n_inv
\* intervals of any fixed size inv_samp gives the caller exactly what synthesizing
\* the same n_inv*inv_samp samples in one interval gives
C1_ChunkingInvisible == EndedQuiet => Outcome(klatt) = WholeOutcome(klatt)

\* The same, for intervals of two samples or more
ChunkingInvisibleFromTwo ==
    (EndedQuiet /\ klatt.inv_samp >= 2) => Outcome(klatt) = WholeOutcome(klatt)

\* C1: a run in intervals of one sample has stopped on the IndexError of
\* Resonator.resonate although the same samples asked in one interval are produced
C1_OneSampleIntervalRaises ==
    /\ EndedQuiet
    /\ klatt.inv_samp = 1 /\ klatt.n_inv = 2
    /\ klatt.err = "IndexError"
    /\ WholeOutcome(klatt)[1] = "output"

-----------------------------------------------------------------------------
(* The impulse generators on their own: klatt.py Impulse driven interval by    *)
(* interval by a fresh Klatt_Synth, klattnew.py Impulse run once on a fresh    *)
(* instance over the whole buffer                                              *)

\* NTVParam1980(FS=10000)
FS == 10000

\* TVParam1980(F0=100)
F0 == 100

\* Samples asked of the impulse generator
ImpulseSamples == 1000

\* Interval sizes tried for klatt.py
ImpulseIntervals == {50, 100, 250, ImpulseSamples}

ImpulseRuns ==
    {[impl |-> "klatt", fs |-> fs, f0 |-> f0, inv_samp |-> d,
      n_inv |-> ImpulseSamples \div d] :
        fs \in {FS, 8000}, f0 \in {F0, 125, 300},
        d \in {d \in ImpulseIntervals : ImpulseSamples % d = 0}}
    \cup {[impl |-> "klattnew", fs |-> fs, f0 |-> f0, inv_samp |-> ImpulseSamples,
           n_inv |-> 1] : fs \in {FS, 8000}, f0 \in {F0, 125, 300}}

\* np.round on a float: half to even, NaN and the infinities kept
QRound(x) == IF IsFinite(x) THEN QInt(RoundHalfEven(x[1], x[2])) ELSE x

\* x >= y as NumPy compares floats: false whenever y or x is NaN
QGe(x, y) == x # QNaN /\ y # QNaN /\ ~QLt(x, y)

\* np.round(FS / F0), sample by sample; division by 0 gives an infinity or NaN
GlotPeriods(fs, f0s) ==
    [n \in 1..Len(f0s) |-> QRound(QDiv(QInt(fs), QInt(f0s[n])))]

\* The turn with a strict comparison: a pulse only after more than a period
NewImpulseStepStrict(glot_period, prev, n) ==
    IF QGe(QInt((n - 1) - prev[2]), glot_period[n])
            /\ QInt((n - 1) - prev[2]) # glot_period[n]
    THEN <<[prev[1] EXCEPT ![n] = QOne], n - 1>>
    ELSE prev

\* One turn of the loop of klattnew.py Impulse.impulse_gen, at sample n (from 1);
\* prev is <<output, last_glot_pulse>>
NewImpulseStep(glot_period, prev, n) ==
    IF QGe(QInt((n - 1) - prev[2]), glot_period[n])
    THEN <<[prev[1] EXCEPT ![n] = QOne], n - 1>>
    ELSE prev

\* The turns lo..hi of that loop in order, from the state prev (the first half
\* is evaluated, by the test on it, before the second half starts from it)
RECURSIVE NewImpulseTurns(_, _, _, _)
NewImpulseTurns(glot_period, prev, lo, hi) ==
    IF lo > hi THEN prev
    ELSE IF lo = hi THEN NewImpulseStep(glot_period, prev, lo)
    ELSE LET half == NewImpulseTurns(glot_period, prev, lo, (lo + hi) \div 2)
         IN  IF half = half
             THEN NewImpulseTurns(glot_period, half, (lo + hi) \div 2 + 1, hi)
             ELSE half

\* klattnew.py Impulse.impulse_gen over samples 1..n: <<output, last_glot_pulse>>
NewImpulseLoop(glot_period, output, last_glot_pulse, n) ==
    NewImpulseTurns(glot_period, <<output, last_glot_pulse>>, 1, n)

InitImpulse ==
    /\ pc = "imp_new"
    /\ imp \in ImpulseRuns
    /\ bridge = Idle
    /\ klatt = Idle
    /\ synth = Idle
    /\ fn = Idle

\* Klatt_Synth.__init__ (klatt.py) or Impulse.__init__ (klattnew.py): the pulse
\* index starts at 0; train collects what the generator has put out
ImpulseNew ==
    /\ pc = "imp_new"
    /\ imp' = [impl |-> imp.impl, fs |-> imp.fs,
               f0 |-> ListOf(imp.f0, IF imp.impl = "klatt" THEN imp.n_inv
                                     ELSE imp.inv_samp),
               inv_samp |-> imp.inv_samp, n_inv |-> imp.n_inv,
               last_glot_pulse |-> 0, current_inv |-> 0, current_ind |-> 0,
               train |-> <<>>]
    /\ pc' = "imp_run"
    /\ UNCHANGED <<bridge, klatt, synth, fn>>

\* klatt.py: impulse_gen on the current interval, then update_inv
ImpulseGenInterval ==
    /\ pc = "imp_run"
    /\ imp.impl = "klatt"
    /\ imp.current_inv < imp.n_inv
    /\ LET r == ImpulseLoop(GlotPeriod(imp.fs, Cur(imp, imp.f0)), imp.current_ind,
                            imp.last_glot_pulse, imp.inv_samp)
       IN  imp' = [imp EXCEPT !.train = @ \o r[1],
                              !.last_glot_pulse = r[2],
                              !.current_inv = @ + 1,
                              !.current_ind = (imp.current_inv + 1) * imp.inv_samp]
    /\ pc' = IF imp.current_inv + 1 < imp.n_inv THEN "imp_run" ELSE "imp_done"
    /\ UNCHANGED <<bridge, klatt, synth, fn>>

\* klattnew.py: impulse_gen once, over all N_SAMP samples
ImpulseGenWhole ==
    /\ pc = "imp_run"
    /\ imp.impl = "klattnew"
    /\ LET r == NewImpulseLoop(GlotPeriods(imp.fs, imp.f0), Zeros(imp.inv_samp),
                               imp.last_glot_pulse, imp.inv_samp)
       IN  imp' = [imp EXCEPT !.train = r[1], !.last_glot_pulse = r[2],
                              !.current_inv = 1]
    /\ pc' = "imp_done"
    /\ UNCHANGED <<bridge, klatt, synth, fn>>

NextImpulse == ImpulseNew \/ ImpulseGenInterval \/ ImpulseGenWhole

SpecImpulse == InitImpulse /\ [][NextImpulse]_vars

\* The impulse train with a 1 at every index in 0..n-1 that is a multiple of
\* period and at least first, 0 elsewhere
PulseTrain(n, period, first) ==
    [i \in 1..n |-> IF (i - 1) >= first /\ (i - 1) % period = 0 THEN QOne ELSE QZero]

\* C2 as stated: with F0 = 100, FS = 10000 and 1000 samples both generators
\* put out 1 exactly at 0, 100, ..., 900 and 0 elsewhere
C2_ImpulsesFromZero ==
    (pc = "imp_done" /\ imp.fs = FS /\ imp.f0[1] = F0
        /\ Len(imp.train) = ImpulseSamples)
    => imp.train = PulseTrain(Len(imp.train), GlotPeriod(FS, F0), 0)

\* C2 amended: the first impulse comes one glottal period after the start, so both
\* generators put out 1 exactly at the positive multiples of round(FS/F0) below the
\* length (100, 200, ..., 900 for F0 = 100, FS = 10000, 1000 samples: 9 impulses)
\* and 0 elsewhere, index 0 included
C2_ImpulsesFromFirstPeriod ==
    pc = "imp_done"
    => imp.train = PulseTrain(imp.n_inv * imp.inv_samp,
                              GlotPeriod(imp.fs, imp.f0[1]),
                              GlotPeriod(imp.fs, imp.f0[1]))

\* C2: klatt.py has run F0 = 100, FS = 10000 over several intervals that total
\* 1000 samples, with no impulse at 0 and impulses at 100 and 900
C2_Witness ==
    /\ pc = "imp_done" /\ imp.impl = "klatt" /\ imp.n_inv > 1
    /\ imp.fs = FS /\ imp.f0[1] = F0 /\ Len(imp.train) = ImpulseSamples
    /\ imp.train[1] = QZero /\ imp.train[101] = QOne /\ imp.train[901] = QOne

-----------------------------------------------------------------------------
(* Components run on their own, on buffers of up to MaxBuf samples *)

MaxBuf == 3

\* Sample values tried
Samples == {QInt(v) : v \in {-2, -1, 0, 1, 2}}

Buffers == UNION {[1..n -> Samples] : n \in 1..MaxBuf}

\* One turn of the loop of Switch.operate (klattnew.py) at sample n (from 1);
\* st holds the two output channels; output[1][1] does not exist in a buffer
\* of one sample
SwitchTurn(st, input, choice, n) ==
    IF st.err # "none" THEN st
    ELSE IF choice[n] = 0
    THEN [st EXCEPT !.output[1][n] = input[n], !.output[2][n] = QZero]
    ELSE IF choice[n] = 1
    THEN IF Len(st.output[2]) < 2
         THEN [st EXCEPT !.output[1][n] = QZero, !.err = "IndexError"]
         ELSE [st EXCEPT !.output[1][n] = QZero, !.output[2][2] = input[n]]
    ELSE st

\* The turns 1..n of that loop
RECURSIVE SwitchLoop(_, _, _, _)
SwitchLoop(st, input, choice, n) ==
    IF n = 0 THEN st
    ELSE SwitchTurn(SwitchLoop(st, input, choice, n - 1), input, choice, n)

\* Switch.operate up to send(), from the output channels as they stand
Switch_operate(output, input, choice) ==
    SwitchLoop([output |-> output, err |-> "none"], input, choice, Len(input))

\* Normalizer.normalize (klattnew.py): input / np.max(np.abs(input))
Normalizer_normalize(input) ==
    [n \in 1..Len(input) |-> QDiv(input[n], MaxAbsOf(input, Len(input)))]

\* Normalizer.normalize (klatt.py) after pull(): input[n] / max(input), on
\* Python numbers, where dividing by 0 raises before any sample is written
normalize(input) ==
    IF MaxOf(input, Len(input)) = QZero
    THEN [output |-> Zeros(Len(input)), err |-> "ZeroDivisionError"]
    ELSE [output |-> [n \in 1..Len(input) |->
                         QDiv(input[n], MaxOf(input, Len(input)))],
          err |-> "none"]

\* The <<ff, bw>> tracks a Resonator is run with: two constant ones and one that
\* alternates between them from sample to sample
ResonatorTracks(n) ==
    {ListOf(<<3, 0>>, n), ListOf(<<2, 1>>, n),
     [i \in 1..n |-> IF i % 2 = 1 THEN <<2, 1>> ELSE <<3, 0>>]}

InitUnits ==
    /\ pc = "unit_new"
    /\ fn \in UNION {{[unit |-> "klattnew.Switch", input |-> x, choice |-> c] :
                         x \in [1..n -> Samples], c \in [1..n -> {0, 1}]} :
                     n \in 1..MaxBuf}
           \cup {[unit |-> u, input |-> x] :
                    u \in {"klattnew.Normalizer", "klatt.Normalizer",
                          "klattnew.OutputModule"},
                    x \in Buffers}
           \cup UNION {{[unit |-> "klattnew.Resonator", input |-> x, anti |-> a,
                          ff |-> [i \in 1..n |-> t[i][1]],
                          bw |-> [i \in 1..n |-> t[i][2]]] :
                            x \in [1..n -> Samples], a \in BOOLEAN,
                            t \in ResonatorTracks(n)} :
                        n \in 1..MaxBuf}
           \cup {[unit |-> u, input |-> x, dB |-> d] :
                    u \in {"klatt.Amplifier", "klattnew.Amplifier"},
                    x \in Buffers, d \in {-40, -20, 0, 20, 40}}
    /\ bridge = Idle
    /\ klatt = Idle
    /\ synth = Idle
    /\ imp = Idle

\* A fresh Switch (two channels of zeros), input received, operate(choice); send()
\* hands channel 0 to dests[0] and channel 1 to dests[1]
UnitSwitch ==
    /\ pc = "unit_new"
    /\ fn.unit = "klattnew.Switch"
    /\ LET r == Switch_operate(<<Zeros(Len(fn.input)), Zeros(Len(fn.input))>>,
                               fn.input, fn.choice)
       IN  fn' = [unit |-> fn.unit, input |-> fn.input, choice |-> fn.choice,
                  sent |-> IF r.err = "none" THEN r.output ELSE <<>>,
                  err |-> r.err]
    /\ pc' = "unit_done"
    /\ UNCHANGED <<bridge, klatt, synth, imp>>

UnitNormalizerNew ==
    /\ pc = "unit_new"
    /\ fn.unit = "klattnew.Normalizer"
    /\ fn' = [unit |-> fn.unit, input |-> fn.input,
              output |-> Normalizer_normalize(fn.input), err |-> "none"]
    /\ pc' = "unit_done"
    /\ UNCHANGED <<bridge, klatt, synth, imp>>

UnitNormalizer ==
    /\ pc = "unit_new"
    /\ fn.unit = "klatt.Normalizer"
    /\ LET r == normalize(fn.input)
       IN  fn' = [unit |-> fn.unit, input |-> fn.input,
                  output |-> r.output, err |-> r.err]
    /\ pc' = "unit_done"
    /\ UNCHANGED <<bridge, klatt, synth, imp>>


\* C3: after Switch.operate, at every sample n channel 0 carries input[n] and
\* channel 1 carries 0 when SW[n] = 0, and channel 1 carries input[n] and
\* channel 0 carries 0 when SW[n] = 1
C3_SwitchRoutesBySample ==
    (pc = "unit_done" /\ fn.unit = "klattnew.Switch")
    => /\ fn.err = "none"
       /\ \A n \in 1..Len(fn.input) :
            /\ fn.choice[n] = 0 => fn.sent[1][n] = fn.input[n] /\ fn.sent[2][n] = QZero
            /\ fn.choice[n] = 1 => fn.sent[2][n] = fn.input[n] /\ fn.sent[1][n] = QZero

\* C3: a Switch has operated on three samples with SW = 1 throughout, and its
\* second channel holds the last input at index 1 and nothing at index 2
C3_ParallelChannelMisplaced ==
    /\ pc = "unit_done" /\ fn.unit = "klattnew.Switch" /\ fn.err = "none"
    /\ fn.choice = <<1, 1, 1>>
    /\ fn.input = <<QInt(1), QInt(2), QInt(-1)>>
    /\ fn.sent[2] = <<QZero, QInt(-1), QZero>>

\* C7: for every input that is not identically zero, either Normalizer puts out
\* input[n] / max(|input|) at every n, so that the largest magnitude is 1
C7_NormalizedToPeakOne ==
    (pc = "unit_done" /\ fn.unit \in {"klattnew.Normalizer", "klatt.Normalizer"}
        /\ NotSilent(fn.input))
    => /\ fn.err = "none"
       /\ \A n \in 1..Len(fn.input) :
            fn.output[n] = QDiv(fn.input[n], MaxAbsOf(fn.input, Len(fn.input)))
       /\ MaxAbsOf(fn.output, Len(fn.output)) = QOne

\* C7: the klatt.py Normalizer has divided <<-2, 1>> by 1, the largest sample
\* with its sign, and handed the input back with magnitude 2 in it
C7_KlattNormalizerKeepsSign ==
    /\ pc = "unit_done" /\ fn.unit = "klatt.Normalizer"
    /\ fn.input = <<QInt(-2), QInt(1)>>
    /\ fn.output = <<QInt(-2), QInt(1)>>

\* The klattnew.py Normalizer alone meets the postcondition of C7
NewNormalizerPeakOne ==
    (pc = "unit_done" /\ fn.unit = "klattnew.Normalizer" /\ NotSilent(fn.input))
    => MaxAbsOf(fn.output, Len(fn.output)) = QOne

\* C5: the waveform klatt_bridge returns has length round(fs*dur)
C5_BridgeLength ==
    (pc = "done" /\ bridge # Idle)
    => Len(klatt.output) = RoundHalfEven(bridge.fs * bridge.dur[1], bridge.dur[2])

\* C5: klatt_bridge has returned 3 samples for 4 Hz over one second in intervals
\* of 3 samples
C5_ShortWaveform ==
    /\ pc = "done" /\ bridge # Idle
    /\ bridge.fs = 4 /\ bridge.dur = <<1, 1>> /\ bridge.inv_samp = 3
    /\ Len(klatt.output) = 3

\* C6: the waveform of a complete synthesis has peak magnitude 1 whenever it is
\* not identically zero
C6_OutputNormalized ==
    (pc = "done" /\ Built /\ Regular(klatt) /\ NotSilent(klatt.output))
    => MaxAbsOf(klatt.output, Len(klatt.output)) = QOne

\* C6: klatt_bridge has returned a waveform holding a sample of magnitude above 1
C6_LoudWaveform ==
    /\ pc = "done" /\ bridge # Idle /\ Regular(klatt)
    /\ \E n \in 1..Len(klatt.output) : QLt(QOne, QAbs(klatt.output[n]))

-----------------------------------------------------------------------------
(* klattnew.py: the KlattSynth object, its send/receive wiring and components *)

\* self.sections of KlattSynth.setup, in order
SectionOrder == <<"voice", "noise", "cascade", "parallel", "radiation", "output_module">>

\* The Buffers KlattSection.connect appends to each section's ins and outs
SectionIns(sec) ==
    CASE sec = "cascade" -> <<"cascade.ins[0]", "cascade.ins[1]">>
      [] sec = "parallel" -> <<"parallel.ins[0]", "parallel.ins[1]">>
      [] sec = "radiation" -> <<"radiation.ins[0]", "radiation.ins[1]">>
      [] sec = "output_module" -> <<"output_module.ins[0]">>
      [] OTHER -> <<>>

SectionOuts(sec) ==
    CASE sec = "voice" -> <<"voice.outs[0]", "voice.outs[1]">>
      [] sec = "noise" -> <<"noise.outs[0]", "noise.outs[1]">>
      [] sec = "cascade" -> <<"cascade.outs[0]">>
      [] sec = "parallel" -> <<"parallel.outs[0]">>
      [] sec = "radiation" -> <<"radiation.outs[0]">>
      [] OTHER -> <<>>

\* Every component the six sections construct, their Buffers included
SynthComponents(n_form) ==
    {"voice.impulse", "voice.rgp", "voice.rgz", "voice.rgs", "voice.av", "voice.avs",
     "voice.mixer", "voice.switch",
     "noise.noisegen", "noise.lowpass", "noise.amp",
     "cascade.ah", "cascade.mixer", "cascade.rnp", "cascade.rnz",
     "parallel.af", "parallel.a1", "parallel.r1", "parallel.first_diff",
     "parallel.mixer", "parallel.an", "parallel.rnp", "parallel.a2", "parallel.r2",
     "parallel.a3", "parallel.r3", "parallel.a4", "parallel.r4", "parallel.a5",
     "parallel.r5", "parallel.a6", "parallel.r6", "parallel.output_mixer",
     "radiation.mixer", "radiation.firstdiff",
     "output_module.mixer", "output_module.normalizer"}
    \cup {FormantNames[i] : i \in 1..n_form}
    \cup UNION {{SectionIns(sec)[i] : i \in 1..Len(SectionIns(sec))}
                    \cup {SectionOuts(sec)[i] : i \in 1..Len(SectionOuts(sec))} :
                sec \in {SectionOrder[k] : k \in 1..Len(SectionOrder)}}

\* The components whose receive() adds to the input (class Mixer)
Mixers ==
    {"voice.mixer", "cascade.mixer", "parallel.mixer", "parallel.output_mixer",
     "radiation.mixer", "output_module.mixer"}

\* Resonator(mast, anti=True)
SynthAntiResonators == {"voice.rgz", "cascade.rnz"}

\* The dests lists once the sections are connected and every patch() has run
Dests(c, n_form) ==
    CASE c = "voice.impulse" -> <<"voice.rgp">>
      [] c = "voice.rgp" -> <<"voice.rgz", "voice.rgs">>
      [] c = "voice.rgz" -> <<"voice.av">>
      [] c = "voice.rgs" -> <<"voice.avs">>
      [] c = "voice.av" -> <<"voice.mixer">>
      [] c = "voice.avs" -> <<"voice.mixer">>
      [] c = "voice.mixer" -> <<"voice.switch">>
      [] c = "voice.switch" -> <<"voice.outs[0]", "voice.outs[1]">>
      [] c = "voice.outs[0]" -> <<"cascade.ins[0]">>
      [] c = "voice.outs[1]" -> <<"parallel.ins[0]">>
      [] c = "noise.noisegen" -> <<"noise.lowpass">>
      [] c = "noise.lowpass" -> <<"noise.amp">>
      [] c = "noise.amp" -> <<"noise.outs[0]", "noise.outs[1]">>
      [] c = "noise.outs[0]" -> <<"cascade.ins[1]">>
      [] c = "noise.outs[1]" -> <<"parallel.ins[1]">>
      [] c = "cascade.ins[0]" -> <<"cascade.mixer">>
      [] c = "cascade.ins[1]" -> <<"cascade.ah">>
      [] c = "cascade.ah" -> <<"cascade.mixer">>
      [] c = "cascade.mixer" -> <<"cascade.rnp">>
      [] c = "cascade.rnp" -> <<"cascade.rnz">>
      [] c = "cascade.rnz" -> <<"cascade.formants[0]">>
      [] c = "cascade.outs[0]" -> <<"radiation.ins[0]">>
      [] c = "parallel.ins[1]" -> <<"parallel.af">>
      [] c = "parallel.ins[0]" -> <<"parallel.a1", "parallel.first_diff">>
      [] c = "parallel.af" -> <<"parallel.mixer", "parallel.a5", "parallel.a6">>
      [] c = "parallel.first_diff" -> <<"parallel.mixer">>
      [] c = "parallel.mixer" ->
            <<"parallel.an", "parallel.a2", "parallel.a3", "parallel.a4">>
      [] c = "parallel.a1" -> <<"parallel.r1", "parallel.output_mixer">>
      [] c = "parallel.an" -> <<"parallel.rnp", "parallel.output_mixer">>
      [] c = "parallel.a2" -> <<"parallel.r2", "parallel.output_mixer">>
      [] c = "parallel.a3" -> <<"parallel.r3", "parallel.output_mixer">>
      [] c = "parallel.a4" -> <<"parallel.r4", "parallel.output_mixer">>
      [] c = "parallel.a5" -> <<"parallel.r5", "parallel.output_mixer">>
      [] c = "parallel.a6" -> <<"parallel.output_mixer">>
      [] c = "parallel.r6" -> <<"parallel.r6">>
      [] c = "parallel.output_mixer" -> <<"parallel.outs[0]">>
      [] c = "parallel.outs[0]" -> <<"radiation.ins[1]">>
      [] c = "radiation.ins[0]" -> <<"radiation.mixer">>
      [] c = "radiation.ins[1]" -> <<"radiation.mixer">>
      [] c = "radiation.mixer" -> <<"radiation.firstdiff">>
      [] c = "radiation.firstdiff" -> <<"radiation.outs[0]">>
      [] c = "radiation.outs[0]" -> <<"output_module.ins[0]">>
      [] c = "output_module.ins[0]" -> <<"output_module.mixer">>
      [] c = "output_module.mixer" -> <<"output_module.normalizer">>
      [] \E i \in 1..n_form : c = FormantNames[i] ->
            IF c = FormantNames[n_form] THEN <<"cascade.outs[0]">>
            ELSE <<FormantNames[(CHOOSE i \in 1..n_form : c = FormantNames[i]) + 1]>>
      [] OTHER -> <<>>

\* KlattSynth.__init__ with params filled in by the caller
KlattSynth_new(params) ==
    [params |-> params, sections |-> <<>>, sections_none |-> TRUE,
     output |-> <<>>, module_output |-> <<>>,
     inp |-> <<>>, out |-> <<>>, dests |-> <<>>,
     last_glot_pulse |-> 0, switch_flat |-> FALSE,
     err |-> "none", ran |-> <<>>]

\* KlattComponent.receive; Mixer.receive adds the signal to the input
receive(N, c, signal) ==
    IF c \in Mixers
    THEN [N EXCEPT !.inp[c] = [n \in 1..Len(signal) |-> QAdd(N.inp[c][n], signal[n])]]
    ELSE [N EXCEPT !.inp[c] = signal]

\* dest.receive(signal) for the first k components of dests
RECURSIVE ReceiveAll(_, _, _, _)
ReceiveAll(N, dests, k, signal) ==
    IF k = 0 THEN N ELSE receive(ReceiveAll(N, dests, k - 1, signal), dests[k], signal)

\* KlattComponent.send
send(N, c) == ReceiveAll(N, N.dests[c], Len(N.dests[c]), N.out[c])

\* The component's method has computed output: store it and send()
Put(N, c, output) == send([N EXCEPT !.out[c] = output], c)

\* Buffer.process
process(N, c) == IF N.err # "none" THEN N ELSE Put(N, c, N.inp[c])

\* Impulse.impulse_gen: the output is written onto what the buffer holds
Impulse_impulse_gen(N, c) ==
    IF N.err # "none" THEN N
    ELSE LET r == NewImpulseLoop(GlotPeriods(N.params.FS, N.params.F0), N.out[c],
                                 N.last_glot_pulse, N.params.N_SAMP)
         IN  Put([N EXCEPT !.last_glot_pulse = r[2]], c, r[1])

\* NewTap without the term of the second delayed sample
NewTapNoSecondDelay(k, x, past, n) ==
    IF n = 1 THEN QMul(k[1][1], x[1])
    ELSE QAdd(QMul(k[n][1], x[n]), QMul(k[n][2], past[n - 1]))

\* One output sample of Resonator.resonate (klattnew.py): k[n] is
\* <<a[n], b[n], c[n]>>, past the vector the delayed taps read (the output in
\* pole mode, the input in anti mode); a tap before the first sample has no term
NewTap(k, x, past, n) ==
    IF n = 1 THEN QMul(k[1][1], x[1])
    ELSE IF n = 2 THEN QAdd(QMul(k[2][1], x[2]), QMul(k[2][2], past[1]))
    ELSE Tap(k[n], x[n], past[n - 1], past[n - 2])

NewPoleNext(x, k, n, prev) == Append(prev, NewTap(k, x, prev, n))

\* The pole branch of Resonator.resonate (klattnew.py), samples 1..n
RECURSIVE NewPoleOut(_, _, _)
NewPoleOut(x, k, n) ==
    IF n = 0 THEN <<>> ELSE NewPoleNext(x, k, n, NewPoleOut(x, k, n - 1))

\* The anti branch of Resonator.resonate (klattnew.py)
NewAntiOut(x, k) == [n \in 1..Len(x) |-> NewTap(k, x, x, n)]

\* Resonator.calc_coef (klattnew.py) on parameter arrays: the coefficients of
\* every sample; NumPy division by a = 0 gives infinities, no exception
Resonator_calc_coef(ff, bw, fs, anti) ==
    [n \in 1..Len(ff) |-> calc_coef(ff[n], bw[n], fs, anti)]

\* Resonator.resonate (klattnew.py): output[1] does not exist in a buffer of
\* one sample
Resonator_resonate(N, c, ff, bw) ==
    IF N.err # "none" THEN N
    ELSE IF N.params.N_SAMP < 2
    THEN [N EXCEPT !.err = "IndexError",
                   !.out[c][1] = NewTap(Resonator_calc_coef(ff, bw, N.params.FS,
                                            c \in SynthAntiResonators),
                                        N.inp[c], N.inp[c], 1)]
    ELSE Put(N, c, IF c \in SynthAntiResonators
                   THEN NewAntiOut(N.inp[c],
                                   Resonator_calc_coef(ff, bw, N.params.FS, TRUE))
                   ELSE NewPoleOut(N.inp[c],
                                   Resonator_calc_coef(ff, bw, N.params.FS, FALSE),
                                   N.params.N_SAMP))

\* Amplifier.amplify (klattnew.py): input * sqrt(10)**(dB/10), sample by sample
\* (a zero sample stays zero under every gain)
Amplifier_amplify(N, c, dB) ==
    IF N.err # "none" THEN N
    ELSE Put(N, c, [n \in 1..Len(N.inp[c]) |->
                      IF N.inp[c][n] = QZero THEN QZero
                      ELSE QMul(N.inp[c][n], Gain(dB[n]))])

\* Mixer.mix (klattnew.py): the input is what receive() has summed so far
Mixer_mix(N, c) == IF N.err # "none" THEN N ELSE Put(N, c, N.inp[c])

\* Firstdiff.differentiate
Firstdiff_differentiate(N, c) ==
    IF N.err # "none" THEN N
    ELSE Put(N, c, [n \in 1..Len(N.inp[c]) |->
                      IF n = 1 THEN N.inp[c][1]
                      ELSE QSub(N.inp[c][n], N.inp[c][n - 1])])

\* Lowpass.filter: the running sum of the input from the buffer's first sample
filter(N, c) ==
    IF N.err # "none" THEN N
    ELSE Put(N, c, LowpassOut(N.inp[c], <<QZero>>, Len(N.inp[c])))

\* Noisegen.generate, the Gaussian draw being chunk
generate(N, c, chunk) == IF N.err # "none" THEN N ELSE Put(N, c, chunk)

\* Switch.send after the loop of operate: one channel to each dest, then input
\* and output replaced by flat vectors of zeros
Switch_send(N, c, output) ==
    [receive(receive(N, N.dests[c][1], output[1]), N.dests[c][2], output[2])
        EXCEPT !.inp[c] = Zeros(N.params.N_SAMP),
               !.out[c] = Zeros(N.params.N_SAMP),
               !.switch_flat = TRUE]

\* What the loop of operate leaves: the exception, or the channels sent
Switch_finish(N, c, r) ==
    IF r.err # "none" THEN [N EXCEPT !.err = r.err, !.out[c] = r.output]
    ELSE Switch_send(N, c, r.output)

\* Switch.operate; once send() has made the output flat, output[0][n] is an
\* item assignment into a number
operate(N, c, choice) ==
    IF N.err # "none" THEN N
    ELSE IF N.switch_flat THEN [N EXCEPT !.err = "TypeError"]
    ELSE Switch_finish(N, c, Switch_operate(N.out[c], N.inp[c], choice))

\* Normalizer.normalize with its send()
Normalizer_run(N, c) ==
    IF N.err # "none" THEN N ELSE Put(N, c, Normalizer_normalize(N.inp[c]))

\* A parameter of the run: <<"FGP">> is params["FGP"], <<"FF", k>> is
\* params["FF"][k], <<"const", dB>> is the literal dB
SynthMissing(N, ref) ==
    Len(ref) = 2 /\ ref[1] # "const" /\ ref[2] + 1 > Len(N.params[ref[1]])

SynthParam(N, ref) ==
    IF ref[1] = "const" THEN ListOf(ref[2], N.params.N_SAMP)
    ELSE IF Len(ref) = 2 THEN N.params[ref[1]][ref[2] + 1]
    ELSE N.params[ref[1]]

\* One statement of a section's run() (klattnew.py)
SynthCall(N, op) ==
    CASE op[1] = "impulse_gen" -> Impulse_impulse_gen(N, op[2])
      [] op[1] = "generate" -> generate(N, op[2], op[3])
      [] op[1] = "resonate" ->
            IF N.err = "none" /\ (SynthMissing(N, op[3]) \/ SynthMissing(N, op[4]))
            THEN [N EXCEPT !.err = "IndexError"]
            ELSE Resonator_resonate(N, op[2], SynthParam(N, op[3]), SynthParam(N, op[4]))
      [] op[1] = "amplify" -> Amplifier_amplify(N, op[2], SynthParam(N, op[3]))
      [] op[1] = "mix" -> Mixer_mix(N, op[2])
      [] op[1] = "differentiate" -> Firstdiff_differentiate(N, op[2])
      [] op[1] = "filter" -> filter(N, op[2])
      [] op[1] = "operate" -> operate(N, op[2], SynthParam(N, op[3]))
      [] op[1] = "process" -> process(N, op[2])
      [] op[1] = "normalize" -> Normalizer_run(N, op[2])

\* The statements ops[1..n] in order
RECURSIVE SynthRun(_, _, _)
SynthRun(N, ops, n) ==
    IF n = 0 THEN N ELSE SynthCall(SynthRun(N, ops, n - 1), ops[n])

\* KlattSection.process_ins and process_outs, as statements
process_ins(sec) == [i \in 1..Len(SectionIns(sec)) |-> <<"process", SectionIns(sec)[i]>>]

process_outs(sec) == [i \in 1..Len(SectionOuts(sec)) |-> <<"process", SectionOuts(sec)[i]>>]

\* A section's run() has returned: noted in the log of the run
Ran(N, sec) == IF N.err = "none" THEN [N EXCEPT !.ran = Append(@, sec)] ELSE N

\* The statements of a section's run(), then the log
RunSection(N, sec, ops) == Ran(SynthRun(N, ops, Len(ops)), sec)

\* KlattVoice1980.run
KlattVoice1980_run(N) ==
    RunSection(N, "voice",
        <<<<"impulse_gen", "voice.impulse">>,
          <<"resonate", "voice.rgp", <<"FGP">>, <<"BGP">>>>,
          <<"resonate", "voice.rgz", <<"FGZ">>, <<"BGZ">>>>,
          <<"resonate", "voice.rgs", <<"FGP">>, <<"BGS">>>>,
          <<"amplify", "voice.av", <<"AV">>>>,
          <<"amplify", "voice.avs", <<"AVS">>>>,
          <<"mix", "voice.mixer">>,
          <<"operate", "voice.switch", <<"SW">>>>>>
        \o process_outs("voice"))

\* KlattNoise1980.run, the Gaussian draw being chunk
KlattNoise1980_run(N, chunk) ==
    RunSection(N, "noise",
        <<<<"generate", "noise.noisegen", chunk>>,
          <<"filter", "noise.lowpass">>,
          <<"amplify", "noise.amp", <<"const", -1000>>>>>>
        \o process_outs("noise"))

\* KlattCascade1980.run: one resonate per element of self.formants
KlattCascade1980_run(N) ==
    RunSection(N, "cascade",
        process_ins("cascade")
        \o <<<<"amplify", "cascade.ah", <<"AH">>>>,
             <<"mix", "cascade.mixer">>,
             <<"resonate", "cascade.rnp", <<"FNP">>, <<"BNP">>>>,
             <<"resonate", "cascade.rnz", <<"FNZ">>, <<"BNZ">>>>>>
        \o [i \in 1..N.params.N_FORM |->
              <<"resonate", FormantNames[i], <<"FF", i - 1>>, <<"BW", i - 1>>>>]
        \o process_outs("cascade"))

\* KlattParallel1980.run: a6 and r6 are not run
KlattParallel1980_run(N) ==
    RunSection(N, "parallel",
        process_ins("parallel")
        \o <<<<"amplify", "parallel.af", <<"AF">>>>,
             <<"amplify", "parallel.a1", <<"A1">>>>,
             <<"resonate", "parallel.r1", <<"FF", 0>>, <<"BW", 0>>>>,
             <<"differentiate", "parallel.first_diff">>,
             <<"mix", "parallel.mixer">>,
             <<"amplify", "parallel.an", <<"AN">>>>,
             <<"resonate", "parallel.rnp", <<"FNP">>, <<"BNP">>>>,
             <<"amplify", "parallel.a2", <<"A2">>>>,
             <<"resonate", "parallel.r2", <<"FF", 1>>, <<"BW", 1>>>>,
             <<"amplify", "parallel.a3", <<"A3">>>>,
             <<"resonate", "parallel.r3", <<"FF", 2>>, <<"BW", 2>>>>,
             <<"amplify", "parallel.a4", <<"A4">>>>,
             <<"resonate", "parallel.r4", <<"FF", 3>>, <<"BW", 3>>>>,
             <<"amplify", "parallel.a5", <<"A5">>>>,
             <<"resonate", "parallel.r5", <<"FF", 4>>, <<"BW", 4>>>>,
             <<"mix", "parallel.output_mixer">>>>
        \o process_outs("parallel"))

\* KlattRadiation1980.run
KlattRadiation1980_run(N) ==
    RunSection(N, "radiation",
        process_ins("radiation")
        \o <<<<"mix", "radiation.mixer">>,
             <<"differentiate", "radiation.firstdiff">>>>
        \o process_outs("radiation"))

\* self.output[:] = self.normalizer.output[:], the last line of OutputModule.run
OutputModule_store(N) ==
    IF N.err # "none" THEN N
    ELSE [N EXCEPT !.module_output = N.out["output_module.normalizer"]]

\* OutputModule.run: the mixed input goes to the Normalizer as it is
OutputModule_run(N) ==
    Ran(OutputModule_store(
            SynthRun(N, process_ins("output_module")
                        \o <<<<"mix", "output_module.mixer">>,
                             <<"normalize", "output_module.normalizer">>>>,
                     Len(SectionIns("output_module")) + 2)),
        "output_module")

\* The branch of setup() taken for VER == "KLYSN80": the sections with their
\* components, connected, listed in self.sections, then patched; cascade.patch
\* indexes self.formants[0]
setup_sections(N) ==
    [N EXCEPT !.sections = SectionOrder,
              !.sections_none = FALSE,
              !.inp = [c \in SynthComponents(N.params.N_FORM) |-> Zeros(N.params.N_SAMP)],
              !.out = [c \in SynthComponents(N.params.N_FORM) |->
                         IF c = "voice.switch"
                         THEN <<Zeros(N.params.N_SAMP), Zeros(N.params.N_SAMP)>>
                         ELSE Zeros(N.params.N_SAMP)],
              !.dests = [c \in SynthComponents(N.params.N_FORM) |->
                           Dests(c, N.params.N_FORM)],
              !.module_output = Zeros(N.params.N_SAMP),
              !.err = IF N.params.N_FORM < 1 THEN "IndexError" ELSE "none"]

\* KlattSynth.setup: np.zeros(N_SAMP), DT = 1/FS, then the sections if VER is
\* the string the code compares with
setup(N) ==
    IF N.params.N_SAMP < 0 THEN [N EXCEPT !.err = "ValueError"]
    ELSE IF N.params.FS = 0
    THEN [N EXCEPT !.output = Zeros(N.params.N_SAMP), !.err = "ZeroDivisionError"]
    ELSE IF N.params.VER = "KLYSN80"
    THEN setup_sections([N EXCEPT !.output = Zeros(N.params.N_SAMP)])
    ELSE [N EXCEPT !.output = Zeros(N.params.N_SAMP)]

-----------------------------------------------------------------------------
(* klattnew.py and klattinterface.py as a state machine: klatt_make or the
   caller fills params, then setup() and run(). The two modules are taken as
   assembled, with np and KlattSynth bound as their docstrings intend. *)

\* The longest buffer, in samples
MaxSamp == 3

\* Points per Track (track_npoints)
TrackPoints == 2

\* TVParam1980.__init__: every Track is np.ones(track_npoints) * value; the
\* values not passed take the defaults of the signature, here the nearest values
\* the units of CosTerm and ExpTerm express
TVParam1980(f0, sw) ==
    [F0 |-> ListOf(f0, TrackPoints),
     FF |-> [i \in 1..5 |-> ListOf(FormantFF[i], TrackPoints)],
     BW |-> [i \in 1..5 |-> ListOf(FormantBW[i], TrackPoints)],
     AV |-> ListOf(0, TrackPoints), AVS |-> ListOf(0, TrackPoints),
     AH |-> ListOf(0, TrackPoints), AF |-> ListOf(0, TrackPoints),
     SW |-> ListOf(sw, TrackPoints),
     FGP |-> ListOf(0, TrackPoints), BGP |-> ListOf(1, TrackPoints),
     FGZ |-> ListOf(2, TrackPoints), BGZ |-> ListOf(1, TrackPoints),
     FNP |-> ListOf(0, TrackPoints), BNP |-> ListOf(1, TrackPoints),
     FNZ |-> ListOf(0, TrackPoints), BNZ |-> ListOf(1, TrackPoints),
     BGS |-> ListOf(1, TrackPoints),
     A1 |-> ListOf(0, TrackPoints), A2 |-> ListOf(0, TrackPoints),
     A3 |-> ListOf(0, TrackPoints), A4 |-> ListOf(0, TrackPoints),
     A5 |-> ListOf(0, TrackPoints), A6 |-> ListOf(0, TrackPoints),
     AN |-> ListOf(0, TrackPoints)]

\* NTVParam1980.__init__, DUR being the rational <<num, den>>
NTVParam1980(FS_, N_FORM, DUR) ==
    [FS |-> FS_, DUR |-> DUR, N_FORM |-> N_FORM,
     N_SAMP |-> RoundHalfEven(FS_ * DUR[1], DUR[2]), VER |-> "KLSYN80"]

\* klatt_trackterpolate on a Track: np.interp at n_samp points from the first
\* point of the track to its last
klatt_trackterpolate(track, n_samp) == interpolate([points |-> track], n_samp)

TrackNames ==
    {"F0", "AV", "AVS", "AH", "AF", "SW", "FGP", "BGP", "FGZ", "BGZ", "FNP",
     "BNP", "FNZ", "BNZ", "BGS", "A1", "A2", "A3", "A4", "A5", "A6", "AN"}

\* The two loops of klatt_make over the attributes of tvparams and ntvparams
MakeParams(tvp, ntvp) ==
    [k \in TrackNames \cup {"FF", "BW", "FS", "DUR", "N_FORM", "N_SAMP", "VER"} |->
        IF k \in TrackNames THEN klatt_trackterpolate(tvp[k], ntvp.N_SAMP)
        ELSE IF k \in {"FF", "BW"}
        THEN [i \in 1..ntvp.N_FORM |-> klatt_trackterpolate(tvp[k][i], ntvp.N_SAMP)]
        ELSE ntvp[k]]

\* klatt_make: np.linspace(0, 1, n_samp) refuses a negative n_samp, tvparams
\* holds five formant tracks; then synth.setup()
klatt_make_synth(tvp, ntvp) ==
    IF ntvp.N_SAMP < 0
    THEN [KlattSynth_new(<<>>) EXCEPT !.err = "ValueError"]
    ELSE IF ntvp.N_FORM > Len(tvp.FF)
    THEN [KlattSynth_new(<<>>) EXCEPT !.err = "IndexError"]
    ELSE setup(KlattSynth_new(MakeParams(tvp, ntvp)))

\* Params a caller fills in by hand: arrays of N_SAMP values
ManualParams(FS_, N_SAMP, N_FORM, VER, f0, sw) ==
    [k \in TrackNames \cup {"FF", "BW", "FS", "N_FORM", "N_SAMP", "VER"} |->
        CASE k = "F0" -> f0
          [] k = "SW" -> sw
          [] k = "FF" -> [i \in 1..N_FORM |-> ListOf(FormantFF[i], N_SAMP)]
          [] k = "BW" -> [i \in 1..N_FORM |-> ListOf(FormantBW[i], N_SAMP)]
          [] k = "FS" -> FS_
          [] k = "N_FORM" -> N_FORM
          [] k = "N_SAMP" -> N_SAMP
          [] k = "VER" -> VER
          [] k \in {"BGP", "BGZ", "BNP", "BNZ", "BGS"} -> ListOf(1, N_SAMP)
          [] k = "FGZ" -> ListOf(2, N_SAMP)
          [] OTHER -> ListOf(0, N_SAMP)]

\* The calls of klatt_make tried: sampling rates positive, zero and negative,
\* durations of a half and three quarters of a second
MakeCalls ==
    {[tvparams |-> TVParam1980(f0, sw), ntvparams |-> NTVParam1980(fs, nf, dur)] :
        f0 \in {1, 2, 0, -2}, sw \in {0, 1}, fs \in {4, 0, -4},
        nf \in {5, 1, 6}, dur \in {<<1, 2>>, <<3, 4>>}}

\* The hand-filled params tried, with either spelling of VER
ManualSynths ==
    UNION {{KlattSynth_new(ManualParams(fs, n, nf, ver, f0, sw)) :
               fs \in {4, -4}, nf \in {5, 1, 0}, ver \in {"KLSYN80", "KLYSN80"},
               f0 \in [1..n -> {1, 2}] \cup {ListOf(0, n), ListOf(-2, n)},
               sw \in {ListOf(0, n), ListOf(1, n)}} :
           n \in 1..MaxSamp}
    \cup {KlattSynth_new(ManualParams(0, 2, 5, "KLYSN80", <<1, 1>>, <<0, 0>>))}

\* np.random.normal: the draws tried (amplify(dB=-1000) scales every draw by
\* 1e-50; the draw at the mean is the one the arithmetic here expresses)
NoiseDraws(n) == {Zeros(n)}

InitNew ==
    /\ \/ pc = "make" /\ synth \in MakeCalls
       \/ pc = "setup" /\ synth \in ManualSynths
    /\ bridge = Idle
    /\ klatt = Idle
    /\ imp = Idle
    /\ fn = Idle

AfterNew(N, nxt) == IF N.err = "none" THEN nxt ELSE "raised"

\* synth = klatt_make(tvparams, ntvparams)
klatt_make ==
    /\ pc = "make"
    /\ synth' = klatt_make_synth(synth.tvparams, synth.ntvparams)
    /\ pc' = AfterNew(synth', "run")
    /\ UNCHANGED <<bridge, klatt, imp, fn>>

\* synth.setup() on hand-filled params
KlattSynth_setup ==
    /\ pc = "setup"
    /\ synth' = setup(synth)
    /\ pc' = AfterNew(synth', "run")
    /\ UNCHANGED <<bridge, klatt, imp, fn>>

\* KlattSynth.run up to its loop: iterating self.sections = None raises
RunBegin ==
    /\ pc = "run"
    /\ synth' = IF synth.sections_none
                THEN [synth EXCEPT !.output = Zeros(synth.params.N_SAMP),
                                   !.err = "TypeError"]
                ELSE [synth EXCEPT !.output = Zeros(synth.params.N_SAMP)]
    /\ pc' = AfterNew(synth', "voice")
    /\ UNCHANGED <<bridge, klatt, imp, fn>>

RunVoice ==
    /\ pc = "voice"
    /\ synth' = KlattVoice1980_run(synth)
    /\ pc' = AfterNew(synth', "noise")
    /\ UNCHANGED <<bridge, klatt, imp, fn>>

RunNoise ==
    /\ pc = "noise"
    /\ \E chunk \in NoiseDraws(synth.params.N_SAMP) :
          synth' = KlattNoise1980_run(synth, chunk)
    /\ pc' = AfterNew(synth', "cascade")
    /\ UNCHANGED <<bridge, klatt, imp, fn>>

RunCascade ==
    /\ pc = "cascade"
    /\ synth' = KlattCascade1980_run(synth)
    /\ pc' = AfterNew(synth', "parallel")
    /\ UNCHANGED <<bridge, klatt, imp, fn>>

RunParallel ==
    /\ pc = "parallel"
    /\ synth' = KlattParallel1980_run(synth)
    /\ pc' = AfterNew(synth', "radiation")
    /\ UNCHANGED <<bridge, klatt, imp, fn>>

RunRadiation ==
    /\ pc = "radiation"
    /\ synth' = KlattRadiation1980_run(synth)
    /\ pc' = AfterNew(synth', "output_module")
    /\ UNCHANGED <<bridge, klatt, imp, fn>>

RunOutput ==
    /\ pc = "output_module"
    /\ synth' = OutputModule_run(synth)
    /\ pc' = AfterNew(synth', "end")
    /\ UNCHANGED <<bridge, klatt, imp, fn>>

\* self.output[:] = self.output_module.output[:], and run() returns
RunEnd ==
    /\ pc = "end"
    /\ synth' = [synth EXCEPT !.output = synth.module_output]
    /\ pc' = "returned"
    /\ UNCHANGED <<bridge, klatt, imp, fn>>

NextNew ==
    \/ klatt_make
    \/ KlattSynth_setup
    \/ RunBegin
    \/ RunVoice
    \/ RunNoise
    \/ RunCascade
    \/ RunParallel
    \/ RunRadiation
    \/ RunOutput
    \/ RunEnd

SpecNew == InitNew /\ [][NextNew]_vars

\* C4: klatt_make has produced the synth from regular parameters and the default
\* VER
RegularMade ==
    /\ pc \notin {"make", "setup"}
    /\ "DUR" \in DOMAIN synth.params
    /\ synth.params.VER = "KLSYN80"
    /\ synth.params.FS > 0 /\ synth.params.N_FORM = 5 /\ synth.params.N_SAMP >= 2
    /\ \A n \in 1..synth.params.N_SAMP : synth.params.F0[n] > 0

\* C4: for a KlattSynth made by klatt_make with the default VER, setup() builds
\* the six sections and run() runs each once in the order Voice, Noise, Cascade,
\* Parallel, Radiation, Output and returns the Output section's buffer
C4_MadeSynthRunsSections ==
    (RegularMade /\ pc \in {"returned", "raised"})
    => /\ pc = "returned"
       /\ synth.sections = SectionOrder
       /\ synth.ran = SectionOrder
       /\ synth.output = synth.module_output

\* C4: run() on the synth klatt_make returned has raised TypeError on
\* self.sections = None, no section having run
C4_MadeSynthHasNoSections ==
    /\ RegularMade
    /\ pc = "raised"
    /\ synth.sections_none
    /\ synth.err = "TypeError"
    /\ synth.ran = <<>>

\* Under the spelling setup() compares with, regular hand-filled params of two
\* samples or more run the six sections in order
MisspeltVersionRuns ==
    (/\ pc \in {"returned", "raised"}
     /\ "VER" \in DOMAIN synth.params
     /\ synth.params.VER = "KLYSN80"
     /\ synth.params.FS > 0 /\ synth.params.N_FORM = 5 /\ synth.params.N_SAMP >= 2)
    => /\ pc = "returned"
       /\ synth.ran = SectionOrder
       /\ synth.output = synth.module_output

-----------------------------------------------------------------------------
(* klattnew.py: the OutputModule on its own *)

\* An OutputModule of a synth set up for Len(input) samples, input received by
\* its ins[0], then run()
UnitOutputModule ==
    /\ pc = "unit_new"
    /\ fn.unit = "klattnew.OutputModule"
    /\ fn' = [unit |-> fn.unit, input |-> fn.input,
              output |-> OutputModule_run(
                            receive(setup(KlattSynth_new(
                                        ManualParams(4, Len(fn.input), 1, "KLYSN80",
                                                     ListOf(1, Len(fn.input)),
                                                     ListOf(0, Len(fn.input))))),
                                    "output_module.ins[0]", fn.input)).module_output,
              err |-> "none"]
    /\ pc' = "unit_done"
    /\ UNCHANGED <<bridge, klatt, synth, imp>>

\* A synth set up for Len(input) samples, for running one of its components
UnitSynth(input) ==
    setup(KlattSynth_new(ManualParams(4, Len(input), 1, "KLYSN80",
                                      ListOf(1, Len(input)), ListOf(0, Len(input)))))

\* A fresh Resonator (voice.rgz if anti, voice.rgp if not) receives input, then
\* resonate(ff, bw)
UnitResonatorRun(u, c) ==
    Resonator_resonate(receive(UnitSynth(u.input), c, u.input), c, u.ff, u.bw)

UnitResonator ==
    /\ pc = "unit_new"
    /\ fn.unit = "klattnew.Resonator"
    /\ fn' = [unit |-> fn.unit, input |-> fn.input, anti |-> fn.anti,
              ff |-> fn.ff, bw |-> fn.bw,
              output |-> UnitResonatorRun(fn, IF fn.anti THEN "voice.rgz"
                                              ELSE "voice.rgp").out[
                             IF fn.anti THEN "voice.rgz" ELSE "voice.rgp"],
              err |-> UnitResonatorRun(fn, IF fn.anti THEN "voice.rgz"
                                           ELSE "voice.rgp").err]
    /\ pc' = "unit_done"
    /\ UNCHANGED <<bridge, klatt, synth, imp>>

\* An Amplifier on its own: klatt.py, the input pulled and amplify(dB);
\* klattnew.py, a fresh voice.av receives the input, then amplify(dB) with dB
\* an array holding the same value at every sample
UnitAmplifier ==
    /\ pc = "unit_new"
    /\ fn.unit \in {"klatt.Amplifier", "klattnew.Amplifier"}
    /\ fn' = [unit |-> fn.unit, input |-> fn.input, dB |-> fn.dB,
              output |-> IF fn.unit = "klatt.Amplifier"
                         THEN AmplifyOut(fn.input, fn.dB)
                         ELSE Amplifier_amplify(
                                 receive(UnitSynth(fn.input), "voice.av", fn.input),
                                 "voice.av", ListOf(fn.dB, Len(fn.input))).out["voice.av"],
              err |-> "none"]
    /\ pc' = "unit_done"
    /\ UNCHANGED <<bridge, klatt, synth, imp>>

NextUnits ==
    \/ UnitSwitch
    \/ UnitNormalizerNew
    \/ UnitNormalizer
    \/ UnitOutputModule
    \/ UnitResonator
    \/ UnitAmplifier

SpecUnits == InitUnits /\ [][NextUnits]_vars

\* C8: when the signal reaching the Output stage is identically zero,
\* OutputModule.run leaves a waveform of zeros, with no NaN or Inf in it
C8_SilenceInSilenceOut ==
    (/\ pc = "unit_done" /\ fn.unit = "klattnew.OutputModule"
     /\ ~NotSilent(fn.input))
    => fn.output = Zeros(Len(fn.input))

\* C8: OutputModule.run has turned two samples of silence into two NaN
C8_SilenceBecomesNaN ==
    /\ pc = "unit_done" /\ fn.unit = "klattnew.OutputModule"
    /\ fn.input = <<QZero, QZero>>
    /\ fn.output = <<QNaN, QNaN>>

-----------------------------------------------------------------------------
(* f0, fs and n_form outside their ranges *)

\* C9: a synthesis given an F0 value that is zero or negative ends with an
\* error and returns no waveform
C9_NonPositiveF0Fails ==
    (Built /\ \E i \in 1..klatt.n_inv : klatt.f0[i] <= 0) => pc # "done"

\* C9: Klatt_Synth.synth has returned a waveform that is not silent from an f0
\* of -2 throughout
C9_NegativeF0Sounds ==
    /\ pc = "done" /\ Built
    /\ \A i \in 1..klatt.n_inv : klatt.f0[i] = -2
    /\ klatt.err = "none"
    /\ NotSilent(klatt.output)

\* The klattnew.py side of C9: KlattSynth.run does not return from an F0 value
\* that is zero or negative
NewNonPositiveF0Fails ==
    (/\ pc \notin {"make", "setup"} /\ "F0" \in DOMAIN synth.params
     /\ \E n \in 1..Len(synth.params.F0) : synth.params.F0[n] <= 0)
    => pc # "returned"

\* C10: with fs not positive or n_form zero, no section of Klatt_Synth runs and
\* no sample is written to the output
C10_DegenerateSettingsRejected ==
    (Built /\ (klatt.fs <= 0 \/ klatt.n_form = 0))
    => /\ klatt.ran = <<>>
       /\ ~NotSilent(klatt.output)

\* C10: at fs = -4 the sections of the first interval have run and its samples
\* are in the output
C10_SectionsRanAtNegativeRate ==
    /\ Built /\ klatt.fs = -4
    /\ pc = "update"
    /\ Len(klatt.ran) = 5
    /\ NotSilent(klatt.output)

\* The klattnew.py side of C10: no section of a KlattSynth runs with FS not
\* positive or N_FORM zero
NewDegenerateSettingsRejected ==
    (/\ pc \notin {"make", "setup"} /\ "FS" \in DOMAIN synth.params
     /\ (synth.params.FS <= 0 \/ synth.params.N_FORM = 0))
    => synth.ran = <<>>

-----------------------------------------------------------------------------
(* Formant counts *)

\* C11: for every formant count in 1..6, a synthesis with regular settings
\* completes without an out-of-range formant access and returns a waveform,
\* whichever branch sw selects
C11_EveryFormantCountRuns ==
    (/\ pc \in {"done", "error"} /\ Built /\ Regular(klatt)
     /\ klatt.n_form \in 1..6 /\ klatt.inv_samp >= 2)
    => pc = "done"

\* C11: with one formant and sw = 1, Klatt_Parallel.run has raised IndexError
\* on ff[1] after Voice and Noise ran
C11_ParallelNeedsFiveFormants ==
    /\ pc = "error" /\ Built /\ Regular(klatt)
    /\ klatt.n_form = 1 /\ klatt.inv_samp >= 2
    /\ \A i \in 1..klatt.n_inv : klatt.sw[i] = 1
    /\ klatt.err = "IndexError"
    /\ klatt.ran = <<"voice", "noise">>

\* With five formants, regular settings and intervals of two samples or more,
\* both branches complete
FiveFormantsRun ==
    (/\ pc \in {"done", "error"} /\ Built /\ Regular(klatt)
     /\ klatt.n_form = 5 /\ klatt.inv_samp >= 2)
    => pc = "done"

\* The klattnew.py side of C11: with FS positive, two samples or more and a
\* formant count in 1..6, run() returns
NewEveryFormantCountRuns ==
    (/\ pc \in {"returned", "raised"} /\ "VER" \in DOMAIN synth.params
     /\ synth.params.VER = "KLYSN80" /\ synth.params.FS > 0
     /\ synth.params.N_FORM \in 1..6 /\ synth.params.N_SAMP >= 2)
    => pc = "returned"

-----------------------------------------------------------------------------
(* klattnew.py: the recursion of the Resonator *)

\* a' = 1/a, b' = -b/a, c' = -c/a
InvertedCoef(p) == <<QDiv(QOne, p[1]), QNeg(QDiv(p[2], p[1])), QNeg(QDiv(p[3], p[1]))>>

\* The coefficients at sample n for the tracks of unit u
CoefAt(u, n) ==
    IF u.anti THEN InvertedCoef(PoleCoef(u.ff[n], u.bw[n], 4))
    ELSE PoleCoef(u.ff[n], u.bw[n], 4)

\* x[n] with x[n] = 0 before the first sample
Sample(x, n) == IF n < 1 THEN QZero ELSE x[n]

\* y[n] = a[n]*x[n] + b[n]*y[n-1] + c[n]*y[n-2], y being 0 before the first sample
RECURSIVE PoleRecursion(_, _)
PoleRecursion(u, n) ==
    IF n < 1 THEN QZero
    ELSE Tap(CoefAt(u, n), u.input[n], PoleRecursion(u, n - 1), PoleRecursion(u, n - 2))

\* y[n] = a'[n]*x[n] + b'[n]*x[n-1] + c'[n]*x[n-2]
AntiRecursion(u, n) ==
    Tap(CoefAt(u, n), u.input[n], Sample(u.input, n - 1), Sample(u.input, n - 2))

\* C12: on a fresh klattnew.py Resonator with per-sample coefficients, every
\* output sample follows the recursion on its own delayed output in pole mode and
\* on the delayed input, with the inverted coefficients, in anti mode
C12_ResonatorRecursion ==
    (pc = "unit_done" /\ fn.unit = "klattnew.Resonator")
    => \A n \in 1..Len(fn.input) :
          fn.output[n] = IF fn.anti THEN AntiRecursion(fn, n) ELSE PoleRecursion(fn, n)

\* C12: a pole Resonator has run over three samples with coefficients that change
\* from sample to sample, both delayed outputs being nonzero at the third
C12_PoleWithHistory ==
    /\ pc = "unit_done" /\ fn.unit = "klattnew.Resonator" /\ ~fn.anti
    /\ fn.err = "none"
    /\ fn.input = <<QInt(1), QInt(2), QInt(-1)>>
    /\ fn.ff = <<2, 3, 2>>
    /\ fn.output[1] # QZero /\ fn.output[2] # QZero

-----------------------------------------------------------------------------
(* Tracks: TrackDrawData.Track, klattinterface.Track and the three
   interpolation helpers, each run on its own *)

\* The longest track, in control points
MaxTrack == 3

\* The longest vector a track is expanded to
MaxOut == 5

\* The tracks tried: every sequence of 1..MaxTrack points over three values
Tracks == UNION {[1..len -> {QInt(0), QInt(1), QInt(2)}] : len \in 1..MaxTrack}

\* np.interp(np.linspace(0, 1, n), np.linspace(0, 1, len(points)), points):
\* output j lies at (j-1)/(n-1) of the way along the track, between the control
\* points on either side of it; np.linspace(0, 1, 1) is [0.]
np_interp(points, n) ==
    [j \in 1..n |->
        IF Len(points) = 1 \/ n = 1 THEN points[1]
        ELSE IF ((j - 1) * (Len(points) - 1)) % (n - 1) = 0
        THEN points[((j - 1) * (Len(points) - 1)) \div (n - 1) + 1]
        ELSE QAdd(points[((j - 1) * (Len(points) - 1)) \div (n - 1) + 1],
                  QMul(Q(((j - 1) * (Len(points) - 1)) % (n - 1), n - 1),
                       QSub(points[((j - 1) * (Len(points) - 1)) \div (n - 1) + 2],
                            points[((j - 1) * (Len(points) - 1)) \div (n - 1) + 1])))]

\* klatt_trackterpolate on a Track of rational points (klattinterface.Track has
\* __len__ and points)
trackterpolate(points, n_samp) ==
    [output |-> np_interp(points, n_samp), err |-> "none"]

\* Track.interpolate of TrackDrawData: this Track class defines no __len__, so
\* len(self) raises before anything is computed
Track_interpolate(points, out_len) == [output |-> <<>>, err |-> "TypeError"]

\* The interpolate helper of klatt_bridge on a list: interp1d over
\* np.arange(len) evaluated at np.linspace(0, len-1, n_inv)
bridge_interpolate(input_vector, n_inv) ==
    [output |-> np_interp(input_vector, n_inv), err |-> "none"]

\* change_no_points growing the track with its first point
change_no_points_first(points, track_npoints) ==
    IF Len(points) >= track_npoints THEN SubSeq(points, 1, track_npoints)
    ELSE points \o [i \in 1..(track_npoints - Len(points)) |-> points[1]]

\* Track.change_no_points (TrackDrawData) and Track.changeNoPoints
\* (klattinterface), the same statements in both
change_no_points(points, track_npoints) ==
    IF Len(points) = track_npoints THEN points
    ELSE IF Len(points) > track_npoints THEN SubSeq(points, 1, track_npoints)
    ELSE points \o [i \in 1..(track_npoints - Len(points)) |->
                       QMul(QOne, points[Len(points)])]

InterpolationUnits ==
    {"klattinterface.klatt_trackterpolate", "TrackDrawData.Track.interpolate",
     "klatt.klatt_bridge.interpolate"}

ResizeUnits ==
    {"TrackDrawData.Track.change_no_points", "klattinterface.Track.changeNoPoints"}

\* interp1d needs two points: the helper of klatt_bridge is run on tracks of two
\* points or more
InitTracks ==
    /\ pc = "track_new"
    /\ fn \in {[unit |-> u, points |-> p, n |-> n] :
                  u \in InterpolationUnits \cup ResizeUnits, p \in Tracks,
                  n \in 1..MaxOut}
    /\ fn.unit = "klatt.klatt_bridge.interpolate" => Len(fn.points) >= 2
    /\ bridge = Idle
    /\ klatt = Idle
    /\ synth = Idle
    /\ imp = Idle

Interpolated(u, points, n) ==
    CASE u = "klattinterface.klatt_trackterpolate" -> trackterpolate(points, n)
      [] u = "TrackDrawData.Track.interpolate" -> Track_interpolate(points, n)
      [] u = "klatt.klatt_bridge.interpolate" -> bridge_interpolate(points, n)

\* The track is expanded to n values
Interpolate ==
    /\ pc = "track_new"
    /\ fn.unit \in InterpolationUnits
    /\ fn' = [unit |-> fn.unit, points |-> fn.points, n |-> fn.n,
              output |-> Interpolated(fn.unit, fn.points, fn.n).output,
              err |-> Interpolated(fn.unit, fn.points, fn.n).err]
    /\ pc' = IF fn'.err = "none" THEN "track_done" ELSE "track_raised"
    /\ UNCHANGED <<bridge, klatt, synth, imp>>

\* The expanded vector is interpolated back to the length of the track
InterpolateBack ==
    /\ pc = "track_done"
    /\ fn.unit \in InterpolationUnits
    /\ fn.n > Len(fn.points)
    /\ fn' = [unit |-> fn.unit, points |-> fn.points, n |-> fn.n,
              output |-> fn.output,
              back |-> Interpolated(fn.unit, fn.output, Len(fn.points)).output,
              err |-> Interpolated(fn.unit, fn.output, Len(fn.points)).err]
    /\ pc' = IF fn'.err = "none" THEN "track_back" ELSE "track_raised"
    /\ UNCHANGED <<bridge, klatt, synth, imp>>

\* track.change_no_points(n)
ChangeNoPoints ==
    /\ pc = "track_new"
    /\ fn.unit \in ResizeUnits
    /\ fn' = [unit |-> fn.unit, points |-> fn.points, n |-> fn.n,
              output |-> change_no_points(fn.points, fn.n), err |-> "none"]
    /\ pc' = "track_done"
    /\ UNCHANGED <<bridge, klatt, synth, imp>>

\* The same call once more on the track it left
ChangeNoPointsAgain ==
    /\ pc = "track_done"
    /\ fn.unit \in ResizeUnits
    /\ fn' = [unit |-> fn.unit, points |-> fn.points, n |-> fn.n,
              output |-> fn.output,
              again |-> change_no_points(fn.output, fn.n), err |-> "none"]
    /\ pc' = "track_again"
    /\ UNCHANGED <<bridge, klatt, synth, imp>>

NextTracks == Interpolate \/ InterpolateBack \/ ChangeNoPoints \/ ChangeNoPointsAgain

SpecTracks == InitTracks /\ [][NextTracks]_vars

\* C13: for every non-empty track and every output length n >= 1, each of the
\* three helpers returns a vector whose first element is the track's first
\* control point and whose last element is the track's last control point
C13_EndpointsPreserved ==
    (pc \in {"track_done", "track_raised"} /\ fn.unit \in InterpolationUnits)
    => /\ fn.err = "none"
       /\ fn.output[1] = fn.points[1]
       /\ fn.output[Len(fn.output)] = fn.points[Len(fn.points)]

\* C13: Track.interpolate of TrackDrawData has raised TypeError on a track of two
\* points asked for two values
C13_TrackInterpolateRaises ==
    /\ pc = "track_raised" /\ fn.unit = "TrackDrawData.Track.interpolate"
    /\ fn.points = <<QInt(1), QInt(2)>> /\ fn.n = 2
    /\ fn.err = "TypeError"

\* For two output values or more, klatt_trackterpolate and the helper of
\* klatt_bridge keep both endpoints
EndpointsPreservedFromTwo ==
    (/\ pc = "track_done" /\ fn.unit \in InterpolationUnits
     /\ fn.unit # "TrackDrawData.Track.interpolate" /\ fn.n >= 2)
    => /\ Len(fn.output) = fn.n
       /\ fn.output[1] = fn.points[1]
       /\ fn.output[fn.n] = fn.points[Len(fn.points)]

\* Never falling, or never rising
Monotone(points) ==
    \/ \A i \in 1..(Len(points) - 1) : ~QLt(points[i + 1], points[i])
    \/ \A i \in 1..(Len(points) - 1) : ~QLt(points[i], points[i + 1])

\* C14: a monotone track of L points interpolated up to m > L values and back
\* down to L comes back as the original control points
C14_RoundTrip ==
    (/\ pc \in {"track_back", "track_raised"}
     /\ fn.unit \in {"klattinterface.klatt_trackterpolate",
                     "TrackDrawData.Track.interpolate"}
     /\ Monotone(fn.points) /\ fn.n > Len(fn.points))
    => pc = "track_back" /\ fn.back = fn.points

\* C14: klatt_trackterpolate has taken the track 0, 0, 1 up to four values and
\* back to three, and the middle point has come back as 1/6
C14_KinkSmoothed ==
    /\ pc = "track_back" /\ fn.unit = "klattinterface.klatt_trackterpolate"
    /\ fn.points = <<QInt(0), QInt(0), QInt(1)>> /\ fn.n = 4
    /\ fn.output = <<QInt(0), QInt(0), Q(1, 3), QInt(1)>>
    /\ fn.back = <<QInt(0), Q(1, 6), QInt(1)>>

\* When every control point falls on one of the m values (L - 1 divides m - 1),
\* klatt_trackterpolate up and back returns the track, monotone or not
RoundTripWhenKnotsKept ==
    (/\ pc = "track_back" /\ fn.unit = "klattinterface.klatt_trackterpolate"
     /\ (Len(fn.points) = 1 \/ (fn.n - 1) % (Len(fn.points) - 1) = 0))
    => fn.back = fn.points

\* C15: change_no_points(k) on a non-empty track of L points leaves k points:
\* the old ones if k = L, the first k if k < L, the old ones followed by k - L
\* copies of the last if k > L; the same call again changes nothing
C15_ChangeNoPoints ==
    (pc \in {"track_done", "track_again"} /\ fn.unit \in ResizeUnits)
    => /\ Len(fn.output) = fn.n
       /\ fn.n = Len(fn.points) => fn.output = fn.points
       /\ fn.n < Len(fn.points) => fn.output = SubSeq(fn.points, 1, fn.n)
       /\ fn.n > Len(fn.points) =>
             /\ SubSeq(fn.output, 1, Len(fn.points)) = fn.points
             /\ \A i \in (Len(fn.points) + 1)..fn.n :
                   fn.output[i] = fn.points[Len(fn.points)]
       /\ pc = "track_again" => fn.again = fn.output

\* C15: a track 1, 2 has been grown to four points and the call repeated
C15_GrownAndRepeated ==
    /\ pc = "track_again" /\ fn.unit = "TrackDrawData.Track.change_no_points"
    /\ fn.points = <<QInt(1), QInt(2)>> /\ fn.n = 4
    /\ fn.output = <<QInt(1), QInt(2), QInt(2), QInt(2)>>
    /\ fn.again = fn.output

-----------------------------------------------------------------------------
(* The mixers on rounded numbers.  The code adds binary floating-point numbers,
   rounding every sum to the nearest one (ties to the even significand).  Here
   the samples are integers and the significand has MantBits bits, so that the
   order in which a mixer adds its inputs shows in the result                 *)

MantBits == 3
MaxMag == 8

\* The exponent of a magnitude m: the least e with m < 2^(MantBits + e)
RECURSIVE Exponent(_, _)
Exponent(m, e) == IF m < Pow(2, MantBits + e) THEN e ELSE Exponent(m, e + 1)

\* A magnitude rounded to MantBits significant bits, ties to even
RoundMag(m, e) ==
    IF (2 * (m % Pow(2, e)) > Pow(2, e))
       \/ (2 * (m % Pow(2, e)) = Pow(2, e) /\ (m \div Pow(2, e)) % 2 = 1)
    THEN ((m \div Pow(2, e)) + 1) * Pow(2, e)
    ELSE (m \div Pow(2, e)) * Pow(2, e)

fround(x) == Sgn(x) * RoundMag(Abs(x), Exponent(Abs(x), 0))

\* x + y on floats
fadd(x, y) == fround(x + y)

\* The builtin sum(x) of Python: from 0, left to right
RECURSIVE py_sum(_, _)
py_sum(x, k) == IF k = 0 THEN 0 ELSE fadd(py_sum(x, k - 1), x[k])

\* Mixer.mix of klatt.py with one input taken as the output
mix_first_input(inputs) == inputs[1]

\* Mixer.mix of klatt.py on the outputs of its input_connect components:
\* [sum(x) for x in zip(*self.inputs)]
mix_floats(inputs) ==
    [n \in 1..Len(inputs[1]) |->
        py_sum([i \in 1..Len(inputs) |-> inputs[i][n]], Len(inputs))]

\* Mixer.receive of klattnew.py: self.input[:] = self.input[:] + signal[:]
Mixer_receive_floats(input, signal) ==
    [n \in 1..Len(input) |-> fadd(input[n], signal[n])]

\* A freshly constructed klattnew.py Mixer (input = np.zeros(N_SAMP)) that has
\* received the first k signals and then mixes: self.output[:] = self.input[:]
RECURSIVE Mixer_received(_, _)
Mixer_received(signals, k) ==
    IF k = 0 THEN [n \in 1..Len(signals[1]) |-> 0]
    ELSE Mixer_receive_floats(Mixer_received(signals, k - 1), signals[k])

Mixer_mix_floats(signals) == Mixer_received(signals, Len(signals))

MixUnits == {"klatt.Mixer", "klattnew.Mixer"}

Mixed(u, signals) ==
    IF u = "klatt.Mixer" THEN mix_floats(signals) ELSE Mixer_mix_floats(signals)

\* Samples that are floats, and buffers of two of them
MixSamples == {x \in {-MaxMag, 0, 1, MaxMag} : fround(x) = x}

MixBuffers == {<<x, y>> : x, y \in MixSamples}

Orders == {o \in [1..3 -> 1..3] : \A i, j \in 1..3 : o[i] = o[j] => i = j}

\* Three source buffers a, b, c; they feed one three-input mixer in some
\* connection order, or two two-input mixers in a chain
InitMixer ==
    /\ pc = "mix_new"
    /\ fn \in {[unit |-> u, grouping |-> g, order |-> o, a |-> a, b |-> b, c |-> c] :
                  u \in MixUnits, g \in {"ab_c", "a_bc", "abc"}, o \in Orders,
                  a \in MixBuffers, b \in MixBuffers, c \in MixBuffers}
    /\ fn.grouping # "abc" => fn.order = <<1, 2, 3>>
    /\ bridge = Idle
    /\ klatt = Idle
    /\ synth = Idle
    /\ imp = Idle

\* The inner mixer of a chain runs: a with b, or b with c
MixInner ==
    /\ pc = "mix_new"
    /\ fn.grouping \in {"ab_c", "a_bc"}
    /\ pc' = "mix_inner"
    /\ fn' = [inner |-> Mixed(fn.unit, IF fn.grouping = "ab_c" THEN <<fn.a, fn.b>>
                                       ELSE <<fn.b, fn.c>>)] @@ fn
    /\ UNCHANGED <<bridge, klatt, synth, imp>>

\* The outer mixer of a chain runs on the inner mixer's output and the third
\* buffer
MixOuter ==
    /\ pc = "mix_inner"
    /\ pc' = "mix_done"
    /\ fn' = [output |-> Mixed(fn.unit, IF fn.grouping = "ab_c" THEN <<fn.inner, fn.c>>
                                        ELSE <<fn.a, fn.inner>>)] @@ fn
    /\ UNCHANGED <<bridge, klatt, synth, imp>>

\* One mixer with the three buffers connected in fn.order runs
MixThree ==
    /\ pc = "mix_new"
    /\ fn.grouping = "abc"
    /\ pc' = "mix_done"
    /\ fn' = [output |-> Mixed(fn.unit, [i \in 1..3 |->
                                           <<fn.a, fn.b, fn.c>>[fn.order[i]]])] @@ fn
    /\ UNCHANGED <<bridge, klatt, synth, imp>>

NextMixer == MixInner \/ MixOuter \/ MixThree

SpecMixer == InitMixer /\ [][NextMixer]_vars

\* C16: whatever the grouping and the connection order, the mixer's output is
\* a[n] + b[n] + c[n] at every n
C16_MixerSumAnyGrouping ==
    pc = "mix_done"
    => \A n \in DOMAIN fn.output : fn.output[n] = fadd(fadd(fn.a[n], fn.b[n]), fn.c[n])

\* The three inputs in the order the last mixer adds them, the inner mixer's
\* two kept together
MixOperands(n) ==
    IF fn.grouping = "abc"
    THEN [i \in 1..3 |-> <<fn.a, fn.b, fn.c>>[fn.order[i]][n]]
    ELSE <<fn.a[n], fn.b[n], fn.c[n]>>

\* C16 (amended): a chain (a with b) with c and a three-input mixer give
\* (x1 + x2) + x3 in connection order, a chain a with (b with c) gives
\* a + (b + c), each sum rounded; where no sum of two or three of the inputs
\* needs rounding, all of them are a[n] + b[n] + c[n]
C16_MixerSumsInItsOrder ==
    pc = "mix_done"
    => \A n \in DOMAIN fn.output :
          /\ fn.grouping \in {"ab_c", "abc"} =>
                fn.output[n] = fadd(fadd(MixOperands(n)[1], MixOperands(n)[2]),
                                    MixOperands(n)[3])
          /\ fn.grouping = "a_bc" =>
                fn.output[n] = fadd(fn.a[n], fadd(fn.b[n], fn.c[n]))
          /\ (/\ fround(fn.a[n] + fn.b[n]) = fn.a[n] + fn.b[n]
              /\ fround(fn.b[n] + fn.c[n]) = fn.b[n] + fn.c[n]
              /\ fround(fn.a[n] + fn.c[n]) = fn.a[n] + fn.c[n]
              /\ fround(fn.a[n] + fn.b[n] + fn.c[n]) = fn.a[n] + fn.b[n] + fn.c[n])
             => fn.output[n] = fn.a[n] + fn.b[n] + fn.c[n]

\* C16: a chain a with (b with c) of klatt.py mixers has run on 1, 1 and MaxMag:
\* the inner sum was rounded and the output differs from (a + b) + c
C16_GroupingShows ==
    /\ pc = "mix_done" /\ fn.unit = "klatt.Mixer" /\ fn.grouping = "a_bc"
    /\ fn.a[1] = 1 /\ fn.b[1] = 1 /\ fn.c[1] = MaxMag
    /\ fn.output[1] # fadd(fadd(fn.a[1], fn.b[1]), fn.c[1])
    /\ fn.output[2] = fn.a[2] + fn.b[2] + fn.c[2]

-----------------------------------------------------------------------------
(* The amplifiers on their own *)

\* x times 10^(dB/20), for dB a multiple of 20: ten times per 20 dB
RECURSIVE Scaled(_, _)
Scaled(x, dB) ==
    IF dB = 0 THEN x
    ELSE IF dB > 0 THEN QMul(QInt(10), Scaled(x, dB - 20))
    ELSE QMul(Q(1, 10), Scaled(x, dB + 20))

-----------------------------------------------------------------------------
(* klatt.py: two Klatt_Synth objects in one process, their interval steps
   interleaved.  What the two can have in common is what the interpreter shares:
   the f0, ff and bw list objects when the caller hands the same lists to both
   constructors (self.f0 = f0 keeps the reference), and the generator behind
   numpy.random.normal, from which each noise_gen call takes the next draw     *)

\* The arguments of the two calls
TwoArgs ==
    {Args(f0, 4, MaxInv, 5, 2, sw) : f0 \in F0Contours(MaxInv, {1, 2}), sw \in {0, 1}}

\* The k-th draw of n samples from the process-wide generator: every other
\* draw starts with a unit sample, the rest is silence
Stream(k, n) == [i \in 1..n |-> IF i = 1 /\ k % 2 = 1 THEN QOne ELSE QZero]

\* Instance i as its methods see it: its own attributes, and the list objects
\* it references
Deref(K, i) ==
    [K.inst[i] EXCEPT !.f0 = K.lists[K.ref[i]].f0,
                      !.ff = K.lists[K.ref[i]].ff,
                      !.bw = K.lists[K.ref[i]].bw]

\* After the body of the loop: update_inv() and the next i, unless a section
\* raised
StepEnd(S, R) == IF Ok(R) THEN [update_inv(R) EXCEPT !.i = S.i + 1] ELSE R

\* One turn of the loop of synth() on S with the draw chunk
IntervalStep(S, chunk) == StepEnd(S, synth_interval(S, chunk))

\* Where the call on S stands after a turn
CallAt(S) ==
    IF ~Ok(S) THEN "error" ELSE IF S.i < S.n_inv THEN "run" ELSE "reset"

\* A turn of the loop that leaves last_glot_pulse of the stepped instance in
\* both instances, as a module-level tracker would
TwoStepSharedPulse(K, i, T, A, chunk) ==
    [K EXCEPT !.inst = [j \in 1..2 |->
                          IF j = i THEN T
                          ELSE [K.inst[j] EXCEPT !.last_glot_pulse = T.last_glot_pulse]],
              !.alone[i] = A,
              !.rng = K.rng + 1,
              !.draws[i] = Append(K.draws[i], chunk),
              !.at[i] = CallAt(T),
              !.hist = Append(K.hist, i)]

\* Instance i has run one turn of for i in range(self.n_inv) on its own
\* attributes and come out as T: whatever it assigned into the list objects it
\* references stays in them, and the generator has moved on by the draw chunk;
\* an object built from the same arguments and run by itself on the same draws
\* has come out as A
TwoStepStore(K, i, T, A, chunk) ==
    [K EXCEPT !.inst[i] = T,
              !.lists[K.ref[i]] = [f0 |-> T.f0, ff |-> T.ff, bw |-> T.bw],
              !.alone[i] = A,
              !.rng = K.rng + 1,
              !.draws[i] = Append(K.draws[i], chunk),
              !.at[i] = CallAt(T),
              !.hist = Append(K.hist, i)]

\* Two calls about to construct their objects, from separate lists or from the
\* same ones
InitTwo ==
    /\ pc = "two_new"
    /\ klatt \in {[args |-> <<a1, a2>>,
                   lists |-> <<[f0 |-> a1.f0, ff |-> a1.ff, bw |-> a1.bw],
                               [f0 |-> a2.f0, ff |-> a2.ff, bw |-> a2.bw]>>,
                   ref |-> r, rng |-> 1, draws |-> <<<<>>, <<>>>>,
                   at |-> <<"run", "run">>, hist |-> <<>>] :
                     a1 \in TwoArgs, a2 \in TwoArgs, r \in {<<1, 2>>, <<1, 1>>}}
    /\ klatt.ref = <<1, 1>> => klatt.lists[1] = klatt.lists[2]
    /\ bridge = Idle
    /\ synth = Idle
    /\ imp = Idle
    /\ fn = Idle

\* Klatt_Synth(...) twice
TwoNew ==
    /\ pc = "two_new"
    /\ klatt' = [inst |-> <<Klatt_Synth_new(klatt.args[1]),
                            Klatt_Synth_new(klatt.args[2])>>,
                 alone |-> <<Klatt_Synth_new(klatt.args[1]),
                             Klatt_Synth_new(klatt.args[2])>>] @@ klatt
    /\ pc' = "two"
    /\ UNCHANGED <<bridge, synth, imp, fn>>

TwoInterval ==
    /\ pc = "two"
    /\ \E i \in 1..2 :
          /\ klatt.at[i] = "run"
          /\ \E R \in {[who \in {"inst", "alone"} |->
                            IntervalStep(IF who = "inst" THEN Deref(klatt, i)
                                         ELSE klatt.alone[i],
                                         Stream(klatt.rng, klatt.inst[i].inv_samp))]} :
                klatt' = TwoStepStore(klatt, i, R.inst, R.alone,
                                      Stream(klatt.rng, klatt.inst[i].inv_samp))
    /\ UNCHANGED <<pc, bridge, synth, imp, fn>>

\* self.reset() at the end of synth()
TwoReset ==
    /\ pc = "two"
    /\ \E i \in 1..2 :
          /\ klatt.at[i] = "reset"
          /\ klatt' = [klatt EXCEPT !.inst[i] = reset(klatt.inst[i]),
                                    !.alone[i] = reset(klatt.alone[i]),
                                    !.at[i] = "done"]
    /\ UNCHANGED <<pc, bridge, synth, imp, fn>>

NextTwo == TwoNew \/ TwoInterval \/ TwoReset

SpecTwo == InitTwo /\ [][NextTwo]_vars

\* C18: however the interval steps of two Klatt_Synth objects are interleaved,
\* each object's impulse train, delay states, trackers and output (given its
\* noise draws) are those of the same object run alone
C18_InstancesIndependent ==
    pc = "two" =>
        \A i \in 1..2 :
            /\ Deref(klatt, i) = klatt.alone[i]
            /\ klatt.at[i] # "error"

\* C18: the two calls have alternated turn by turn and both have returned, the
\* first with a waveform that is not silence
C18_Alternated ==
    /\ pc = "two"
    /\ klatt.hist = <<1, 2, 1, 2>>
    /\ klatt.at = <<"done", "done">>
    /\ klatt.args[1] # klatt.args[2]
    /\ NotSilent(klatt.inst[1].output)

\* The draws an object gets depend on the other object: the second of two
\* alternating objects never gets a first-of-two draw
C18_DrawsInterleaved ==
    /\ pc = "two"
    /\ klatt.hist = <<1, 2, 1, 2>>
    /\ klatt.draws[1] # klatt.draws[2]

-----------------------------------------------------------------------------
(* Who writes which buffer.  The buffers are objects on a heap and a component
   holds references to its input and output buffers, so that a buffer reached
   from two components, and a write through it, can be told from a copy.
   Four components are wired as in the synthesizers: a source feeding a left
   and a right branch that meet in a mixer.  klatt.py: a Noise source, two
   Amplifiers and a Mixer connected through input_connect.  klattnew.py: a
   Switch, two Buffers and a Mixer connected through dests.                   *)

MaxExec == 3

FrameComps == {"source", "left", "right", "mixer"}

\* input_connect of klatt.py, dests of klattnew.py
FrameInputs(c) ==
    CASE c = "left" -> <<"source">>
      [] c = "right" -> <<"source">>
      [] c = "mixer" -> <<"left", "right">>
      [] OTHER -> <<>>

FrameDests(c) ==
    CASE c = "source" -> <<"left", "right">>
      [] c = "left" -> <<"mixer">>
      [] c = "right" -> <<"mixer">>
      [] OTHER -> <<>>

\* The components after construction: every buffer its own object of n zeros;
\* the klattnew.py Switch holds a list of two output channels
FrameNew(impl, n) ==
    [impl |-> impl,
     heap |-> [id \in 1..(9 + 2 * MaxExec) |-> IF id <= 9 THEN Zeros(n) ELSE <<>>],
     ref |-> [c \in FrameComps |->
                CASE c = "source" -> [input |-> 1,
                                      output |-> IF impl = "klattnew" THEN <<2, 3>>
                                                 ELSE <<2>>]
                  [] c = "left" -> [input |-> 4, output |-> <<5>>]
                  [] c = "right" -> [input |-> 6, output |-> <<7>>]
                  [] c = "mixer" -> [input |-> 8, output |-> <<9>>]],
     free |-> 10, n |-> n, err |-> "none", steps |-> 0]

\* The contents of the output buffer(s) of c, and of its input buffer
OutputOf(F, c) == [k \in 1..Len(F.ref[c].output) |-> F.heap[F.ref[c].output[k]]]

InputOf(F, c) == F.heap[F.ref[c].input]

\* b[:] = value, or b[n] = ... for every n: the object keeps its identity
Store(F, id, value) == [F EXCEPT !.heap[id] = value]

\* self.input = <zeros>; self.output = <zeros>: two new objects
Rebind(F, c) ==
    [F EXCEPT !.heap[F.free] = Zeros(F.n), !.heap[F.free + 1] = Zeros(F.n),
              !.ref[c] = [input |-> F.free, output |-> <<F.free + 1>>],
              !.free = F.free + 2]

\* Klatt_Component.pull: new input and output lists, then
\* self.input[:] = self.input_connect[0].output[:]
frame_pull(F, c) ==
    Store(Rebind(F, c), F.free, F.heap[F.ref[FrameInputs(c)[1]].output[1]])

\* Amplifier.amplify of klatt.py
frame_amplify(F, c, dB) ==
    Store(frame_pull(F, c), F.free + 1,
          AmplifyOut(F.heap[F.ref[FrameInputs(c)[1]].output[1]], dB))

\* Mixer.mix of klatt.py: copies of the connected outputs, summed into output
frame_mix(F, c) ==
    Store(F, F.ref[c].output[1],
          [n \in 1..F.n |-> QAdd(F.heap[F.ref[FrameInputs(c)[1]].output[1]][n],
                                 F.heap[F.ref[FrameInputs(c)[2]].output[1]][n])])

\* Noise.noise_gen of klatt.py: self.output[:] = the draw
frame_noise_gen(F, c, chunk) == Store(F, F.ref[c].output[1], chunk)

\* receive() keeping the array it is handed, a view of the sender's output,
\* as its input
frame_receive_view(F, d, sig) == [F EXCEPT !.ref[d].input = sig]

\* KlattComponent.receive and Mixer.receive of klattnew.py; sig is the sender's
\* output buffer, of which signal is a view: the values are copied into the
\* receiver's own input
frame_receive(F, d, sig) ==
    IF d = "mixer"
    THEN Store(F, F.ref[d].input,
               [n \in 1..F.n |-> QAdd(F.heap[F.ref[d].input][n], F.heap[sig][n])])
    ELSE Store(F, F.ref[d].input, F.heap[sig])

\* KlattComponent.send: dest.receive(signal=self.output[:]) for each of dests
RECURSIVE frame_send(_, _, _)
frame_send(F, c, k) ==
    IF k = 0 THEN F
    ELSE frame_receive(frame_send(F, c, k - 1), FrameDests(c)[k], F.ref[c].output[1])

\* Buffer.process and Mixer.mix of klattnew.py: self.output[:] = self.input[:],
\* then send()
frame_process(F, c) ==
    frame_send(Store(F, F.ref[c].output[1], InputOf(F, c)), c, Len(FrameDests(c)))

\* Switch.send: one channel to each of the two dests, then new input and
\* output arrays
frame_Switch_send(F, c) ==
    Rebind(frame_receive(frame_receive(F, FrameDests(c)[1], F.ref[c].output[1]),
                         FrameDests(c)[2], F.ref[c].output[2]), c)

\* Switch.operate then send(); once send() has replaced the two channels by one
\* array, self.output[0][n] fails before anything is written
frame_operate(F, c, choice) ==
    IF Len(F.ref[c].output) < 2 THEN [F EXCEPT !.err = "IndexError"]
    ELSE frame_Switch_send(
            Store(Store(F, F.ref[c].output[1],
                        Switch_operate(OutputOf(F, c), InputOf(F, c), choice).output[1]),
                  F.ref[c].output[2],
                  Switch_operate(OutputOf(F, c), InputOf(F, c), choice).output[2]), c)

\* Executing component c
FrameRun(F, c, x, choice) ==
    IF F.impl = "klatt"
    THEN CASE c = "source" -> frame_noise_gen(F, c, x)
           [] c = "left" -> frame_amplify(F, c, 20)
           [] c = "right" -> frame_amplify(F, c, 0)
           [] c = "mixer" -> frame_mix(F, c)
    ELSE CASE c = "source" -> frame_operate(F, c, choice)
           [] OTHER -> frame_process(F, c)

\* The components are built; the klattnew.py Switch has its input signal x
InitFrame ==
    /\ pc = "frame"
    /\ fn \in {[F |-> IF impl = "klattnew" THEN Store(FrameNew(impl, 2), 1, x)
                      ELSE FrameNew(impl, 2),
                x |-> x, choice |-> ch, last |-> "none",
                before |-> [c \in FrameComps |-> <<>>]] :
                  impl \in {"klatt", "klattnew"}, x \in [1..2 -> Samples],
                  ch \in [1..2 -> {0, 1}]}
    /\ bridge = Idle
    /\ klatt = Idle
    /\ synth = Idle
    /\ imp = Idle

\* Component c has executed; before keeps every output buffer as it was
FrameAfter(c) ==
    [fn EXCEPT !.F = [FrameRun(fn.F, c, fn.x, fn.choice)
                         EXCEPT !.steps = fn.F.steps + 1],
               !.last = c,
               !.before = [d \in FrameComps |-> OutputOf(fn.F, d)]]

\* The source executes: noise_gen() / operate(choice)
FrameSource ==
    /\ pc = "frame"
    /\ fn.F.steps < MaxExec
    /\ fn.F.err = "none"
    /\ fn' = FrameAfter("source")
    /\ UNCHANGED <<pc, bridge, klatt, synth, imp>>

\* A branch executes: amplify(dB) / process()
FrameBranch ==
    /\ pc = "frame"
    /\ fn.F.steps < MaxExec
    /\ fn.F.err = "none"
    /\ \E c \in {"left", "right"} : fn' = FrameAfter(c)
    /\ UNCHANGED <<pc, bridge, klatt, synth, imp>>

\* The mixer executes: mix()
FrameMixer ==
    /\ pc = "frame"
    /\ fn.F.steps < MaxExec
    /\ fn.F.err = "none"
    /\ fn' = FrameAfter("mixer")
    /\ UNCHANGED <<pc, bridge, klatt, synth, imp>>

NextFrame == FrameSource \/ FrameBranch \/ FrameMixer

SpecFrame == InitFrame /\ [][NextFrame]_vars

\* The buffer objects a component references
BuffersOf(F, c) == {F.ref[c].input} \cup {F.ref[c].output[k] : k \in 1..Len(F.ref[c].output)}

\* C19: every buffer belongs to one component, and executing a component
\* leaves the output buffer of every other component, the upstream one
\* included, as it was
C19_OutputsWrittenByOwner ==
    pc = "frame" =>
        /\ \A c, d \in FrameComps : c # d => BuffersOf(fn.F, c) \cap BuffersOf(fn.F, d) = {}
        /\ \A c \in FrameComps : fn.F.ref[c].input \notin
                                    {fn.F.ref[c].output[k] : k \in 1..Len(fn.F.ref[c].output)}
        /\ fn.last # "none" =>
              \A d \in FrameComps \ {fn.last} : OutputOf(fn.F, d) = fn.before[d]

\* C19: source, left branch and mixer have executed in turn; the signal has
\* reached the mixer's output and the left branch's output is as it left it
C19_MixerRanAfterLeft ==
    /\ pc = "frame" /\ fn.last = "mixer" /\ fn.F.steps = 3
    /\ NotSilent(OutputOf(fn.F, "left")[1])
    /\ OutputOf(fn.F, "mixer")[1] = OutputOf(fn.F, "left")[1]
    /\ OutputOf(fn.F, "left") = fn.before["left"]

-----------------------------------------------------------------------------
(* klatt.py: the loop of synth() and the interval trackers *)

\* next_inv, current_ind and next_ind follow current_inv, and the output vector
\* keeps its length
TrackersInStep(S) ==
    /\ S.next_inv = S.current_inv + 1
    /\ S.current_ind = S.current_inv * S.inv_samp
    /\ S.next_ind = S.next_inv * S.inv_samp
    /\ Len(S.output) = S.n_inv * S.inv_samp

\* current_inv = 0, next_inv = 1, current_ind = 0, next_ind = inv_samp
TrackersInitial(S) ==
    /\ S.current_inv = 0 /\ S.next_inv = 1
    /\ S.current_ind = 0 /\ S.next_ind = S.inv_samp

\* C20: synth() takes exactly n_inv interval steps, in increasing k, and then
\* returns; throughout, the trackers follow current_inv and the output keeps
\* its length n_inv*inv_samp; after the return the trackers are back at their
\* initial values
C20_SynthRunsAllIntervals ==
    (Built /\ Regular(klatt))
    => /\ pc # "error"
       /\ TrackersInStep(klatt)
       /\ klatt.i <= klatt.n_inv
       /\ pc \notin {"reset", "done"} => klatt.current_inv = klatt.i
       /\ pc \in {"reset", "done"} => klatt.i = klatt.n_inv
       /\ pc = "done" => TrackersInitial(klatt)

\* C20: with regular settings, five formants and intervals of one sample,
\* synth() has raised IndexError in its first interval: no step was completed
\* and nothing was written to the output
C20_FirstIntervalRaises ==
    /\ pc = "error" /\ Built /\ Regular(klatt)
    /\ klatt.inv_samp = 1 /\ klatt.n_form = 5 /\ klatt.n_inv = MaxInv
    /\ klatt.err = "IndexError"
    /\ klatt.i = 0
    /\ klatt.output = Zeros(klatt.n_inv * klatt.inv_samp)

\* Whenever no section raises, the loop is as C20 states
SynthLoopUnlessRaised ==
    (Built /\ pc # "error")
    => /\ TrackersInStep(klatt)
       /\ klatt.i <= klatt.n_inv
       /\ pc \notin {"reset", "done"} => klatt.current_inv = klatt.i
       /\ pc \in {"reset", "done"} => klatt.i = klatt.n_inv
       /\ pc = "done" => TrackersInitial(klatt)

\* Regular settings with intervals of two samples or more, and five formants
\* where the parallel branch is used, never raise
RegularRunsComplete ==
    (/\ Built /\ Regular(klatt) /\ klatt.inv_samp >= 2
     /\ (klatt.n_form >= 5 \/ \A k \in 1..klatt.n_inv : klatt.sw[k] = 0))
    => pc # "error"

\* Interval step k writes output[k*inv_samp : (k+1)*inv_samp] with the Output
\* component's input and nothing else of the output, and no other step of
\* synth() writes to the output at all
StepWritesItsSlice ==
    [][(Built /\ pc' # "error" /\ "output" \in DOMAIN klatt')
       => IF pc = "output"
          THEN /\ Len(klatt'.output) = Len(klatt.output)
               /\ \A j \in 1..Len(klatt.output) :
                     IF j \in (klatt.i * klatt.inv_samp + 1)..((klatt.i + 1) * klatt.inv_samp)
                     THEN klatt'.output[j] =
                             klatt'.inp["output_module.output"][j - klatt.i * klatt.inv_samp]
                     ELSE klatt'.output[j] = klatt.output[j]
          ELSE klatt'.output = klatt.output]_vars

-----------------------------------------------------------------------------
(* klatt.py: the order of the sections within an interval *)

SectionComps(S, sec) ==
    CASE sec = "voice" -> VoiceComps
      [] sec = "noise" -> NoiseComps
      [] sec = "cascade" -> CascadeComps(S.n_form)
      [] sec = "parallel" -> ParallelComps
      [] sec = "radiation" -> RadiationComps
      [] sec = "output" -> OutputComps

\* The sections whose output buffer a component of sec is connected to
SectionReads(S, sec) ==
    {s \in Sections : \E c \in SectionComps(S, sec) :
        \E k \in 1..Len(InputConnect(c)) : InputConnect(c)[k] = s}

\* Voice, Noise, the branch sw selects, Radiation, Output
SectionsInOrder(sw) ==
    <<"voice", "noise">>
        \o (IF sw = 0 THEN <<"cascade">> ELSE IF sw = 1 THEN <<"parallel">> ELSE <<>>)
        \o <<"radiation", "output">>

\* The sections run before ran[k] in the interval
RanBefore(S, k) == {S.ran[j] : j \in 1..(k - 1)}

\* C21: in every interval every section that runs reads only section outputs
\* already computed in the same interval
C21_ReadsOnlyComputed ==
    Built => \A k \in 1..Len(klatt.ran) :
                SectionReads(klatt, klatt.ran[k]) \subseteq RanBefore(klatt, k)

\* C21 (amended): in every interval the sections run in the order Voice, Noise,
\* vocal-tract branch, Radiation, Output; the branch is Cascade and only
\* Cascade when sw = 0, Parallel and only Parallel when sw = 1; the interval
\* index advances only after Output has run; every section reads only section
\* outputs computed earlier in the same interval, except that Radiation also
\* reads the output buffer of the branch that did not run
C21_SectionsInOrder ==
    (Built /\ klatt.ran # <<>>)
    => /\ klatt.current_inv = klatt.i
       /\ Len(klatt.ran) <= Len(SectionsInOrder(Cur(klatt, klatt.sw)))
       /\ klatt.ran = SubSeq(SectionsInOrder(Cur(klatt, klatt.sw)), 1, Len(klatt.ran))
       /\ pc = "update" <=> klatt.ran = SectionsInOrder(Cur(klatt, klatt.sw))
       /\ \A k \in 1..Len(klatt.ran) :
             SectionReads(klatt, klatt.ran[k]) \subseteq
                 RanBefore(klatt, k)
                     \cup (IF klatt.ran[k] = "radiation"
                           THEN {"cascade", "parallel"} ELSE {})

\* C21: in the second interval with sw = 0, Radiation has run after Voice,
\* Noise and Cascade, having mixed in the output buffer of Parallel, which
\* never ran
C21_RadiationReadParallel ==
    /\ pc = "output" /\ Built /\ klatt.i = 1
    /\ klatt.ran = <<"voice", "noise", "cascade", "radiation">>
    /\ "parallel" \in SectionReads(klatt, "radiation")
    /\ klatt.out["parallel"] = Zeros(klatt.inv_samp)
    /\ NotSilent(klatt.out["cascade"])

-----------------------------------------------------------------------------
(* klattnew.py: what the output mixer of the parallel section sums *)

\* The resonators and the amplifiers of the parallel bank that run() operates
ParallelResonators ==
    <<"parallel.r1", "parallel.rnp", "parallel.r2", "parallel.r3", "parallel.r4",
      "parallel.r5">>

ParallelAmplifiers ==
    <<"parallel.a1", "parallel.an", "parallel.a2", "parallel.a3", "parallel.a4",
      "parallel.a5">>

\* Sample n of the outputs of the first k components of cs, added up
RECURSIVE SumOfOutputs(_, _, _, _)
SumOfOutputs(N, cs, k, n) ==
    IF k = 0 THEN QZero ELSE QAdd(SumOfOutputs(N, cs, k - 1, n), N.out[cs[k]][n])

\* KlattParallel1980.run has returned in this run()
ParallelRan ==
    /\ pc \in {"radiation", "output_module", "end", "returned"}
    /\ \E k \in 1..Len(synth.ran) : synth.ran[k] = "parallel"

\* C22: once KlattParallel1980.run has returned, every sample of the output
\* mixer's output is the sum of the outputs of r1, rnp, r2, r3, r4 and r5
C22_MixerSumsResonators ==
    ParallelRan =>
        \A n \in 1..synth.params.N_SAMP :
            synth.out["parallel.output_mixer"][n]
                = SumOfOutputs(synth, ParallelResonators, 6, n)

\* C22: what the mixer holds instead is the sum of the amplifiers' outputs,
\* which reached it without their resonators, and no resonator sends to it
C22_MixerSumsAmplifiers ==
    ParallelRan =>
        /\ \A n \in 1..synth.params.N_SAMP :
              synth.out["parallel.output_mixer"][n]
                  = SumOfOutputs(synth, ParallelAmplifiers, 6, n)
        /\ \A k \in 1..6 :
              /\ synth.dests[ParallelResonators[k]] = <<>>
              /\ \E j \in 1..Len(synth.dests[ParallelAmplifiers[k]]) :
                    synth.dests[ParallelAmplifiers[k]][j] = "parallel.output_mixer"

\* C22: a run in which the two sums differ
C22_AmplifierBypassedResonator ==
    /\ ParallelRan
    /\ synth.params.FS > 0
    /\ \A n \in 1..synth.params.N_SAMP : synth.params.F0[n] > 0
    /\ \E n \in 1..synth.params.N_SAMP :
          SumOfOutputs(synth, ParallelAmplifiers, 6, n)
              # SumOfOutputs(synth, ParallelResonators, 6, n)

-----------------------------------------------------------------------------
(* The parallel wiring: what the formant-1 amplifier a1 takes as input *)

\* Klatt_Parallel.run has returned in the current interval of synth()
ParallelRanInInterval ==
    /\ pc = "radiation"
    /\ Len(klatt.ran) > 0
    /\ klatt.ran[Len(klatt.ran)] = "parallel"

\* C23: once the parallel section of klatt.py has run in an interval, the input
\* of a1 is the first difference of the voice signal, the output of first_diff
C23_FirstFormantTakesDifference ==
    ParallelRanInInterval =>
        klatt.inp["parallel.a1"] = klatt.out["parallel.first_diff"]

\* C23: a1 is constructed on the voice section itself and its input is the raw
\* voice signal in every interval
FirstFormantTakesVoice ==
    ParallelRanInInterval =>
        /\ klatt.input_connect["parallel.a1"] = <<"voice">>
        /\ klatt.inp["parallel.a1"] = klatt.out["voice"]

\* C23: an interval in which the raw voice differs from its first difference
C23_FirstFormantReadRawVoice ==
    /\ ParallelRanInInterval
    /\ \A k \in 1..klatt.n_inv : klatt.f0[k] > 0
    /\ klatt.inp["parallel.a1"] = klatt.out["voice"]
    /\ klatt.out["voice"] # klatt.out["parallel.first_diff"]

\* C23: the same in klattnew.py, where ins[0] is connected to a1 and to
\* first_diff side by side
NewFirstFormantTakesVoice ==
    ParallelRan =>
        /\ synth.dests["parallel.ins[0]"] = <<"parallel.a1", "parallel.first_diff">>
        /\ synth.inp["parallel.a1"] = synth.out["parallel.ins[0]"]

NewFirstFormantTakesDifference ==
    ParallelRan => synth.inp["parallel.a1"] = synth.out["parallel.first_diff"]

-----------------------------------------------------------------------------
(* The cascade section: the chain of resonators *)

\* The formant resonators Klatt_Cascade.__init__ has built
FormantsBuilt(S) ==
    {c \in DOMAIN S.inp : \E i \in 1..Len(FormantNames) : c = FormantNames[i]}

\* Formant resonator i - 1 of the section has resonated T.inp into T.out with
\* ff[i-1] and bw[i-1] of the interval and the delay S held before the run
FormantResonated(S, T, i) ==
    T.out[FormantNames[i]]
        = PoleOut(T.inp[FormantNames[i]],
                  calc_coef(Cur(S, S.ff[i]), Cur(S, S.bw[i]), S.fs, FALSE),
                  S.delay[FormantNames[i]], S.inv_samp)

\* The chain as Klatt_Cascade.run leaves it in T when started in S
CascadeChain(S, T) ==
    /\ FormantsBuilt(T) = {FormantNames[i] : i \in 1..S.n_form}
    /\ \A n \in 1..S.inv_samp :
          T.out["cascade.mixer"][n] = QAdd(S.out["voice"][n], S.out["noise"][n])
    /\ T.inp["cascade.rnp"] = T.out["cascade.mixer"]
    /\ T.inp["cascade.rnz"] = T.out["cascade.rnp"]
    /\ T.inp[FormantNames[1]] = T.out["cascade.rnz"]
    /\ \A i \in 2..S.n_form : T.inp[FormantNames[i]] = T.out[FormantNames[i - 1]]
    /\ \A i \in 1..S.n_form : FormantResonated(S, T, i)
    /\ T.out["cascade"] = T.out[FormantNames[S.n_form]]

\* C24: whenever Klatt_Cascade.run returns with n_form >= 1, the mixed source
\* has passed the nasal pole, the nasal zero and exactly n_form formant
\* resonators in series, resonator 0 reading the nasal zero, resonator i the
\* output resonator i-1 produced in this run, each with ff[i] and bw[i], and
\* the section's output is the output of resonator n_form-1
C24_CascadeChain ==
    [][(pc = "tract" /\ pc' = "radiation" /\ Cur(klatt, klatt.sw) = 0
            /\ klatt.n_form >= 1)
       => CascadeChain(klatt, klatt')]_vars

\* C24: a cascade of five formants has run on a sounding source and its output
\* is that of the last resonator, not of the first
C24_FiveFormantsInSeries ==
    /\ pc = "radiation"
    /\ Len(klatt.ran) > 0 /\ klatt.ran[Len(klatt.ran)] = "cascade"
    /\ klatt.n_form = 5
    /\ klatt.out["cascade"] = klatt.out[FormantNames[5]]
    /\ klatt.out["cascade"] # klatt.out[FormantNames[1]]
    /\ klatt.out["cascade"] # klatt.out[FormantNames[4]]
    /\ klatt.inp[FormantNames[5]] = klatt.out[FormantNames[4]]

\* C24: the chain of KlattCascade1980 in klattnew.py, once its run() has
\* returned in the first run of the synth
NewCascadeChain ==
    (pc = "parallel" /\ synth.params.N_FORM >= 1) =>
        /\ {c \in DOMAIN synth.inp : \E i \in 1..Len(FormantNames) : c = FormantNames[i]}
              = {FormantNames[i] : i \in 1..synth.params.N_FORM}
        /\ \A n \in 1..synth.params.N_SAMP :
              synth.out["cascade.mixer"][n]
                  = QAdd(synth.out["cascade.ins[0]"][n], synth.out["cascade.ah"][n])
        /\ synth.inp["cascade.rnp"] = synth.out["cascade.mixer"]
        /\ synth.inp["cascade.rnz"] = synth.out["cascade.rnp"]
        /\ synth.inp[FormantNames[1]] = synth.out["cascade.rnz"]
        /\ \A i \in 2..synth.params.N_FORM :
              synth.inp[FormantNames[i]] = synth.out[FormantNames[i - 1]]
        /\ \A i \in 1..synth.params.N_FORM :
              synth.out[FormantNames[i]]
                  = NewPoleOut(synth.inp[FormantNames[i]],
                               Resonator_calc_coef(synth.params.FF[i], synth.params.BW[i],
                                                   synth.params.FS, FALSE),
                               synth.params.N_SAMP)
        /\ synth.out["cascade.outs[0]"] = synth.out[FormantNames[synth.params.N_FORM]]

-----------------------------------------------------------------------------
(* The wiring as a graph *)

\* The components D connects c to
Connected(D, c) == {D[c][k] : k \in 1..Len(D[c])} \cap DOMAIN D

\* The components reached from the frontier by one connection or more
RECURSIVE ReachedFrom(_, _, _)
ReachedFrom(D, frontier, seen) ==
    LET new == UNION {Connected(D, c) : c \in frontier} \ seen
    IN  IF new = {} THEN seen ELSE ReachedFrom(D, new, seen \cup new)

\* No component is reachable from itself
Acyclic(D) == \A c \in DOMAIN D : c \notin ReachedFrom(D, {c}, {})

\* C25: the dests lists of a klattnew.py synth that has been set up form an
\* acyclic graph
C25_WiringAcyclic == pc \notin {"make", "setup"} => Acyclic(synth.dests)

\* C25: patch() has connected r6 to itself
C25_ResonatorConnectedToItself ==
    /\ pc \notin {"make", "setup", "raised"}
    /\ "parallel.r6" \in DOMAIN synth.dests
    /\ synth.dests["parallel.r6"] = <<"parallel.r6">>
    /\ "parallel.r6" \in ReachedFrom(synth.dests, {"parallel.r6"}, {})

\* C25: r6 apart, no component of klattnew.py is reachable from itself
AcyclicButForSixthResonator ==
    pc \notin {"make", "setup"} =>
        \A c \in DOMAIN synth.dests \ {"parallel.r6"} :
            c \notin ReachedFrom(synth.dests, {c}, {})

\* C25: run() leaves every dests list as setup() made it
RunKeepsDests ==
    [][pc \notin {"make", "setup"} => synth'.dests = synth.dests]_vars

\* The component whose output a section of klatt.py copies into its own
SectionSource(sec, n_form) ==
    CASE sec = "voice" -> "voice.mixer"
      [] sec = "noise" -> "noise.ah"
      [] sec = "cascade" -> FormantNames[NumFormantComps(n_form)]
      [] sec = "parallel" -> "parallel.output_mixer"
      [] sec = "radiation" -> "radiation.radiation_characteristic"

\* The input_connect lists of klatt.py as a graph, a section reading the
\* component it copies
InputGraph(S) ==
    [c \in DOMAIN S.input_connect \cup Sections |->
        IF c \in Sections THEN <<SectionSource(c, S.n_form)>> ELSE S.input_connect[c]]

\* C25: the input_connect lists of klatt.py are acyclic
KlattWiringAcyclic == Built => Acyclic(InputGraph(klatt))

\* C25: synth() leaves every input_connect list as the constructors made it
SynthKeepsInputConnect ==
    [][(Built /\ "input_connect" \in DOMAIN klatt')
       => klatt'.input_connect = klatt.input_connect]_vars

-----------------------------------------------------------------------------
(* klattnew.py Impulse.impulse_gen, one turn of its loop at a time, on F0
   vectors that vary from sample to sample *)

\* Samples in the buffer of the Impulse
MaxPulse == 5

\* FS and the values of F0 tried: FS/F0 is 3, 3/2, 3/4, 5, 5/2 or 5/4
PulseRates == {3, 5}

PulseF0 == {1, 2, 4}

InitPulse ==
    /\ pc = "pulse_new"
    /\ imp \in [FS : PulseRates, F0 : [1..MaxPulse -> PulseF0]]
    /\ bridge = Idle
    /\ klatt = Idle
    /\ synth = Idle
    /\ fn = Idle

\* Impulse.__init__ on a synth with these params, and the first line of
\* impulse_gen: the buffers are zeros, the pulse index 0
PulseNew ==
    /\ pc = "pulse_new"
    /\ imp' = [FS |-> imp.FS, F0 |-> imp.F0, N_SAMP |-> Len(imp.F0),
               glot_period |-> GlotPeriods(imp.FS, imp.F0),
               output |-> Zeros(Len(imp.F0)), last_glot_pulse |-> 0, n |-> 0,
               sent |-> <<>>]
    /\ pc' = "pulse_loop"
    /\ UNCHANGED <<bridge, klatt, synth, fn>>

\* One turn of for n in range(N_SAMP)
PulseTurn ==
    /\ pc = "pulse_loop"
    /\ imp.n < imp.N_SAMP
    /\ \E r \in {NewImpulseStep(imp.glot_period, <<imp.output, imp.last_glot_pulse>>,
                                imp.n + 1)} :
          imp' = [imp EXCEPT !.output = r[1], !.last_glot_pulse = r[2], !.n = @ + 1]
    /\ pc' = "pulse_loop"
    /\ UNCHANGED <<bridge, klatt, synth, fn>>

\* The loop is over: self.send()
PulseSend ==
    /\ pc = "pulse_loop"
    /\ imp.n = imp.N_SAMP
    /\ imp' = [imp EXCEPT !.sent = imp.output]
    /\ pc' = "pulse_done"
    /\ UNCHANGED <<bridge, klatt, synth, fn>>

NextPulse == PulseNew \/ PulseTurn \/ PulseSend

SpecPulse == InitPulse /\ [][NextPulse]_vars

\* round(FS / F0[n]) for the sample of index n (from 0), as an integer
PulsePeriod(I, n) == RoundHalfEven(I.FS, I.F0[n + 1])

\* The indices below n at which the output holds an impulse
PulsesBefore(I, n) == {m \in 0..(n - 1) : I.output[m + 1] = QOne}

\* The index of the most recent impulse before sample n, 0 if there is none
LastPulseBefore(I, n) ==
    IF PulsesBefore(I, n) = {} THEN 0
    ELSE CHOOSE m \in PulsesBefore(I, n) : \A k \in PulsesBefore(I, n) : k <= m

\* The turn at sample n of a loop in state I has left I2
ImpulseRule(I, I2, n) ==
    /\ I.last_glot_pulse = LastPulseBefore(I, n)
    /\ I2.output[n + 1] = IF n - I.last_glot_pulse >= PulsePeriod(I, n)
                          THEN QOne ELSE QZero
    /\ \A m \in 1..I.N_SAMP : m # n + 1 => I2.output[m] = I.output[m]
    /\ I2.last_glot_pulse >= I.last_glot_pulse
    /\ I2.last_glot_pulse <= n
    /\ I2.last_glot_pulse = LastPulseBefore(I2, n + 1)
    /\ (I2.output[n + 1] = QOne /\ PulsesBefore(I, n) # {})
          => n - LastPulseBefore(I, n) >= PulsePeriod(I, n)

\* C26: on a fresh klattnew.py Impulse with positive F0, every turn of the loop
\* sets output[n] to 1 exactly when n - last_glot_pulse >= round(FS/F0[n]),
\* last_glot_pulse being the index of the latest impulse (0 before any), and
\* leaves it 0 otherwise; last_glot_pulse never decreases nor exceeds n, and an
\* impulse at j follows the previous one at i by at least round(FS/F0[j])
C26_ImpulseRule ==
    [][(pc = "pulse_loop" /\ pc' = "pulse_loop") => ImpulseRule(imp, imp', imp.n)]_vars

\* C26: a train with two impulses or more on an F0 that varies, one of them
\* after a period rounded from a half
C26_VaryingTrain ==
    /\ pc = "pulse_done"
    /\ \E i, j \in PulsesBefore(imp, imp.N_SAMP) :
          /\ i < j
          /\ imp.F0[i + 1] # imp.F0[j + 1]
          /\ (imp.FS * 2) % imp.F0[j + 1] = 0 /\ imp.FS % imp.F0[j + 1] # 0
          /\ j - i = PulsePeriod(imp, j)
    /\ imp.sent = imp.output

-----------------------------------------------------------------------------
(* klattnew.py: run() called again on the synth that has returned *)

\* The caller keeps the waveform of the first run and calls synth.run() again
RunAgain ==
    /\ pc = "returned"
    /\ "first_output" \notin DOMAIN synth
    /\ synth' = [k \in DOMAIN synth \cup {"first_output"} |->
                    IF k = "first_output" THEN synth.output ELSE synth[k]]
    /\ pc' = "run"
    /\ UNCHANGED <<bridge, klatt, imp, fn>>

NextAgain ==
    \/ klatt_make
    \/ KlattSynth_setup
    \/ RunBegin
    \/ RunVoice
    \/ RunNoise
    \/ RunCascade
    \/ RunParallel
    \/ RunRadiation
    \/ RunOutput
    \/ RunEnd
    \/ RunAgain

SpecAgain == InitNew /\ [][NextAgain]_vars

\* The second run() of the synth has ended, by returning or by raising
SecondRunOver ==
    /\ pc \in {"returned", "raised"}
    /\ "first_output" \in DOMAIN synth

\* C27: the second run() of a set-up synth returns, and with the waveform of
\* the first run
C27_SecondRunSameWaveform ==
    SecondRunOver => (pc = "returned" /\ synth.output = synth.first_output)

\* C27: every second run() raises TypeError in the voice section, where the
\* Switch indexes the flat output its first send() left
SecondRunRaises ==
    SecondRunOver =>
        /\ pc = "raised"
        /\ synth.err = "TypeError"
        /\ synth.switch_flat
        /\ synth.ran = SectionOrder

\* C27: a second run() that raised, on a synth whose first run left a pulse
\* index and a Mixer input behind
C27_SecondRunRaised ==
    /\ SecondRunOver
    /\ pc = "raised"
    /\ synth.params.FS > 0
    /\ \A n \in 1..synth.params.N_SAMP : synth.params.F0[n] > 0
    /\ synth.last_glot_pulse > 0
    /\ synth.inp["cascade.mixer"] # Zeros(synth.params.N_SAMP)

-----------------------------------------------------------------------------
(* klatt.py: synth() called again on the Klatt_Synth that has returned *)

\* The caller keeps the output of the first call and calls synth() again
SynthAgain ==
    /\ pc = "done"
    /\ "first_output" \notin DOMAIN klatt
    /\ klatt' = [k \in DOMAIN klatt \cup {"first_output"} |->
                    IF k = "first_output" THEN klatt.output
                    ELSE IF k = "i" THEN 0 ELSE klatt[k]]
    /\ pc' = IF klatt.n_inv > 0 THEN "voice" ELSE "reset"
    /\ UNCHANGED <<bridge, synth, imp, fn>>

NextTwice ==
    \/ klatt_bridge
    \/ Klatt_Synth_init
    \/ SynthVoice
    \/ SynthNoise
    \/ SynthCascade
    \/ SynthParallel
    \/ SynthNoTract
    \/ SynthRadiation
    \/ SynthOutput
    \/ SynthUpdateInv
    \/ SynthReset
    \/ SynthAgain

SpecTwice == Init /\ [][NextTwice]_vars

\* synth() is running, or has run, for the second time
SecondSynth == Built /\ "first_output" \in DOMAIN klatt

\* last_glot_pulse at the start of interval i of a call that starts from a
\* fresh object
RECURSIVE FreshPulse(_, _)
FreshPulse(S, i) ==
    IF i = 0 THEN 0
    ELSE ImpulseLoop(GlotPeriod(S.fs, S.f0[i]), (i - 1) * S.inv_samp,
                     FreshPulse(S, i - 1), S.inv_samp)[2]

\* The impulses of interval i of a call that starts from a fresh object
FreshTrain(S, i) ==
    ImpulseLoop(GlotPeriod(S.fs, S.f0[i + 1]), i * S.inv_samp, FreshPulse(S, i),
                S.inv_samp)[1]

\* The first call puts out the train of a fresh object in every interval
FirstSynthTrain ==
    (Built /\ ~SecondSynth /\ pc = "noise")
        => klatt.out["voice.impulse"] = FreshTrain(klatt, klatt.i)

\* C28: the second synth() on the same object puts out, in every interval, the
\* impulses the first call put out, and, no noise having been drawn, ends with
\* the output of the first call
C28_SecondSynthReproduces ==
    /\ (SecondSynth /\ pc = "noise")
          => klatt.out["voice.impulse"] = FreshTrain(klatt, klatt.i)
    /\ (SecondSynth /\ pc = "done" /\ ~klatt.noise_used)
          => klatt.output = klatt.first_output

\* C28: a second call on regular parameters, without noise, whose output
\* differs from that of the first call
C28_SecondSynthDiffers ==
    /\ SecondSynth
    /\ pc = "done"
    /\ ~klatt.noise_used
    /\ klatt.fs > 0
    /\ \A k \in 1..klatt.n_inv : klatt.f0[k] > 0
    /\ klatt.output # klatt.first_output

\* C28: reset() has run and the pulse index of the first call is still there
C28_PulseIndexKept ==
    /\ Built
    /\ pc = "done"
    /\ klatt.current_inv = 0 /\ klatt.current_ind = 0
    /\ klatt.last_glot_pulse > 0

-----------------------------------------------------------------------------
(* klatt.py: the buffers that are never written in a call of synth() *)

\* The vocal-tract section the switch of the object does not select
Unselected(S) == IF S.sw[1] = 0 THEN "parallel" ELSE "cascade"

Selected(S) == IF S.sw[1] = 0 THEN "cascade" ELSE "parallel"

\* The resonators Klatt_Parallel.run calls, in the order of the output mixer
ParallelBank ==
    <<"parallel.r1", "parallel.rnp", "parallel.r2", "parallel.r3", "parallel.r4",
      "parallel.r5">>

\* Sample n of the outputs of the first k resonators of the bank, added up
RECURSIVE BankSum(_, _, _)
BankSum(S, k, n) ==
    IF k = 0 THEN QZero ELSE QAdd(BankSum(S, k - 1, n), S.out[ParallelBank[k]][n])

\* C29: throughout synth() on a fresh object with sw 0 or 1, the output of the
\* section sw does not select and the output of r6 are zeros; once the
\* radiation section has run its mixer holds the selected section's output, and
\* once the parallel section has run its output mixer holds the sum of r1, rnp,
\* r2, r3, r4 and r5
C29_UnusedBuffersSilent ==
    (Built /\ klatt.n_inv > 0 /\ klatt.sw[1] \in {0, 1}) =>
        /\ klatt.out[Unselected(klatt)] = Zeros(klatt.inv_samp)
        /\ klatt.out["parallel.r6"] = Zeros(klatt.inv_samp)
        /\ (pc = "output")
              => klatt.out["radiation.mixer"] = klatt.out[Selected(klatt)]
        /\ ParallelRanInInterval
              => \A n \in 1..klatt.inv_samp :
                    klatt.out["parallel.output_mixer"][n] = BankSum(klatt, 6, n)

\* C29: the second interval of a call with sw = 1: the radiation mixer holds
\* what the parallel section put out, the cascade buffer is silent
C29_ParallelAloneHeard ==
    /\ Built
    /\ pc = "output"
    /\ klatt.i = 1
    /\ klatt.sw[1] = 1
    /\ klatt.out["cascade"] = Zeros(klatt.inv_samp)
    /\ klatt.out["parallel"] # Zeros(klatt.inv_samp)
    /\ klatt.out["parallel.r5"] # Zeros(klatt.inv_samp)
    /\ klatt.out["radiation.mixer"] = klatt.out["parallel"]

-----------------------------------------------------------------------------
(* klatt.py: a First_Diff fed by a Lowpass, interval after interval, on
   rounded numbers (the floats of the mixers above) *)

\* The longest interval and the most intervals tried
MaxChunk == 2

MaxChunks == 2

\* Samples that are floats
ChainSamples == {x \in {-1, 1, MaxMag} : fround(x) = x}

\* Lowpass.filt after pull(), on floats: the first n samples of the output
RECURSIVE filt_floats(_, _, _)
filt_floats(input, delay, n) ==
    IF n = 0 THEN <<>>
    ELSE IF n = 1 THEN <<fadd(input[1], delay[1])>>
    ELSE Append(filt_floats(input, delay, n - 1),
                fadd(input[n], filt_floats(input, delay, n - 1)[n - 1]))

\* First_Diff.differentiate with the first sample taken as it is
differentiate_no_delay(input, delay) ==
    [n \in 1..Len(input) |->
        IF n = 1 THEN input[1] ELSE fadd(input[n], -input[n - 1])]

\* First_Diff.differentiate after pull(), on floats
differentiate_floats(input, delay) ==
    [n \in 1..Len(input) |->
        IF n = 1 THEN fadd(input[1], -delay[1]) ELSE fadd(input[n], -input[n - 1])]

\* The source signal x, cut into n_inv intervals of inv_samp samples
InitChain ==
    /\ pc = "chain_new"
    /\ fn \in UNION {[inv_samp : {d}, n_inv : {k}, x : [1..(d * k) -> ChainSamples]] :
                        d \in 1..MaxChunk, k \in 1..MaxChunks}
    /\ bridge = Idle
    /\ klatt = Idle
    /\ synth = Idle
    /\ imp = Idle

\* Lowpass(...) and First_Diff(input_connect=[lowpass]): zeroed buffers and
\* delay = [0]; filtered and differentiated collect the outputs interval by
\* interval
ChainNew ==
    /\ pc = "chain_new"
    /\ fn' = [inv_samp |-> fn.inv_samp, n_inv |-> fn.n_inv, x |-> fn.x,
              current_inv |-> 0,
              lowpass |-> [output |-> [n \in 1..fn.inv_samp |-> 0], delay |-> <<0>>],
              first_diff |-> [output |-> [n \in 1..fn.inv_samp |-> 0], delay |-> <<0>>],
              filtered |-> <<>>, differentiated |-> <<>>]
    /\ pc' = "chain_filt"
    /\ UNCHANGED <<bridge, klatt, synth, imp>>

\* The samples of x in the current interval
ChainInput(F) ==
    SubSeq(F.x, F.current_inv * F.inv_samp + 1, (F.current_inv + 1) * F.inv_samp)

\* lowpass.filt() on the current interval
ChainFilt ==
    /\ pc = "chain_filt"
    /\ \E y \in {filt_floats(ChainInput(fn), fn.lowpass.delay, fn.inv_samp)} :
          fn' = [fn EXCEPT !.lowpass = [output |-> y, delay |-> <<y[Len(y)]>>],
                           !.filtered = @ \o y]
    /\ pc' = "chain_diff"
    /\ UNCHANGED <<bridge, klatt, synth, imp>>

\* first_diff.differentiate() on the current interval, and the next interval
ChainDiff ==
    /\ pc = "chain_diff"
    /\ \E y \in {differentiate_floats(fn.lowpass.output, fn.first_diff.delay)} :
          fn' = [fn EXCEPT !.first_diff =
                               [output |-> y,
                                delay |-> <<fn.lowpass.output[fn.inv_samp]>>],
                           !.differentiated = @ \o y,
                           !.current_inv = @ + 1]
    /\ pc' = IF fn.current_inv + 1 < fn.n_inv THEN "chain_filt" ELSE "chain_done"
    /\ UNCHANGED <<bridge, klatt, synth, imp>>

NextChain == ChainNew \/ ChainFilt \/ ChainDiff

SpecChain == InitChain /\ [][NextChain]_vars

ChainBuilt == pc \in {"chain_filt", "chain_diff", "chain_done"}

\* The running sum before absolute sample n (from 1)
SumBefore(F, n) == IF n = 1 THEN 0 ELSE F.filtered[n - 1]

\* C30, as stated: every sample the First_Diff has put out is the sample of x
\* at the same absolute index
C30_DifferenceUndoesSum ==
    ChainBuilt =>
        \A n \in 1..Len(fn.differentiated) : fn.differentiated[n] = fn.x[n]

\* C30: for every interval length and number of intervals, the first sample
\* of an interval included, the sample put out at n is the rounded difference
\* of the rounded running sums at n and n-1, and it is x[n] whenever the sum
\* at n came out without rounding
C30_DifferenceUndoesSumUpToRounding ==
    ChainBuilt =>
        \A n \in 1..Len(fn.differentiated) :
            /\ fn.filtered[n] = fadd(fn.x[n], SumBefore(fn, n))
            /\ fn.differentiated[n] = fadd(fn.filtered[n], -SumBefore(fn, n))
            /\ fn.filtered[n] = fn.x[n] + SumBefore(fn, n)
                  => fn.differentiated[n] = fn.x[n]

\* C30: two intervals done, the second begun on a running sum that is not 0,
\* every sum exact and x reproduced
C30_ReproducedAcrossIntervals ==
    /\ pc = "chain_done"
    /\ fn.n_inv = 2
    /\ fn.filtered[fn.inv_samp] # 0
    /\ \A n \in 1..Len(fn.x) : fn.filtered[n] = fn.x[n] + SumBefore(fn, n)
    /\ fn.differentiated = fn.x

\* C30: a sample lost to the rounding of the running sum
C30_SampleLostToRounding ==
    /\ pc = "chain_done"
    /\ \E n \in 1..Len(fn.x) : fn.x[n] = 1 /\ fn.differentiated[n] = 0

=============================================================================
